---------------------------- MODULE Spec2Model ----------------------------
(***************************************************************************)
(* Model of the vSphere VM provider of vm-operator: the per-namespace      *)
(* session cache (SessionManager), the Session's lifecycle operations and  *)
(* the VSphereVmProvider facade with its error translation.                *)
(*                                                                         *)
(* Backend calls (govmomi / vCenter) are an environment: the result of     *)
(* each call is either decided by the modelled inventory (name lookups)    *)
(* or drawn from the failure point f of the call: the one backend call of  *)
(* the handler that fails (every handler returns at its first error, so    *)
(* calls after a failed one are never issued).                             *)
(***************************************************************************)
EXTENDS Integers, Sequences, FiniteSets, TLC

(***************************************************************************)
(* Bounds                                                                  *)
(***************************************************************************)
\* concurrent callers of SessionManager.GetSession
MaxCallers == 2
\* session constructions started in one behaviour of the session manager
MaxAttempts == 2
\* largest number of backend VMs that share one name
MaxDup == 2

Callers == 1..MaxCallers

Namespaces == {"ns1", "ns2"}
\* the key the image operations pass to the session manager
GlobalKey == ""
Keys == Namespaces \cup {GlobalKey}

VMNames == {"vm1"}
ImageNames == {"img1"}
Names == VMNames \cup ImageNames

(***************************************************************************)
(* Errors.  A Go error is modelled by its dynamic type (what a type switch *)
(* sees) and, for the structured Kubernetes error, the resource kind and   *)
(* the resource identifier it carries.  cause keeps the type of the error  *)
(* an errors.Wrap wrapped.                                                 *)
(***************************************************************************)
Err(t) == [type |-> t, kind |-> "", name |-> "", cause |-> ""]

NoErr == Err("nil")
NotFoundError == Err("find.NotFoundError")
DefaultNotFoundError == Err("find.DefaultNotFoundError")
MultipleFoundError == Err("find.MultipleFoundError")
DefaultMultipleFoundError == Err("find.DefaultMultipleFoundError")
\* a transport, authentication or validation fault of the backend
BackendFault == Err("soap.Fault")

FindErrors ==
  {NotFoundError, DefaultNotFoundError, MultipleFoundError, DefaultMultipleFoundError}

\* errors.Wrap / errors.Wrapf: a new error value of another dynamic type
Wrap(e) ==
  IF e = NoErr THEN NoErr
  ELSE [type |-> "errors.withStack", kind |-> "", name |-> "",
        cause |-> IF e.cause # "" THEN e.cause ELSE e.type]

\* fmt.Errorf / errors.Errorf: a plain error
Errorf(msg) == [type |-> "errors.errorString", kind |-> "", name |-> "", cause |-> msg]

K8sNotFound(resourceType, resource) ==
  [type |-> "k8s.StatusError.NotFound", kind |-> resourceType, name |-> resource, cause |-> ""]

IsNotFoundClass(e) == e.type \in {"find.NotFoundError", "find.DefaultNotFoundError"}
IsMultipleFoundClass(e) ==
  e.type \in {"find.MultipleFoundError", "find.DefaultMultipleFoundError"}

\* a structured domain error: it carries the resource kind and identifier
IsDomainError(e) == e.kind # "" /\ e.name # ""

transformError(resourceType, resource, err) ==
  IF IsNotFoundClass(err) THEN K8sNotFound(resourceType, resource)
  ELSE IF IsMultipleFoundClass(err) THEN err
  ELSE err

transformVmError(resource, err) == transformError("VirtualMachine", resource, err)

transformVmImageError(resource, err) == transformError("VirtualMachineImage", resource, err)

\* VirtualMachine.NamespacedName and fmt.Sprintf("%v/%v", namespace, name)
NamespacedName(ns, name) == ns \o "/" \o name

(***************************************************************************)
(* Results.  Every operation of the Session and of the provider returns a  *)
(* result: the backend calls it issued, in order; err, its error; raw, the *)
(* error before the provider translated it; made, the change it made to    *)
(* the number of backend VMs of the VM's name; val, its value.             *)
(***************************************************************************)
R(calls, err, made, val) ==
  [calls |-> calls, err |-> err, raw |-> err, made |-> made, val |-> val]

\* a then b: b runs only if a returned no error (the early return of the code)
Then(a, b) ==
  IF a.err # NoErr THEN a
  ELSE [calls |-> a.calls \o b.calls, err |-> b.err, raw |-> b.raw,
        made |-> a.made + b.made, val |-> b.val]

\* errors.Wrap of the error of a
Wrapped(a) == [a EXCEPT !.err = Wrap(a.err), !.raw = Wrap(a.err)]

\* one backend call, issued as `call`, that fails when it is the failure point
CallAs(call, point, f) ==
  IF f = point THEN R(<<call>>, BackendFault, 0, "") ELSE R(<<call>>, NoErr, 0, "")

Call(point, f) == CallAs(point, point, f)

Range(q) == {q[i] : i \in 1..Len(q)}

(***************************************************************************)
(* Sessions                                                                *)
(***************************************************************************)
\* VSphereVmProviderConfig: the fields that select a path of the code
Configs == [contentSource : {"", "cl1"}, network : {"", "net1"}]

NoSession == [id |-> 0, contentlib |-> "", network |-> ""]

\* WithRestClient: login, the callback only after a successful login, and
\* the deferred logout on every path after the login
WithRestClientLeaksOnError(f, cb) ==
  IF f = "rest.Login" THEN R(<<"rest.Login">>, BackendFault, 0, "")
  ELSE [cb EXCEPT !.calls = <<"rest.Login">> \o @ \o
                            (IF cb.err = NoErr THEN <<"rest.Logout">> ELSE <<>>)]

WithRestClient(f, cb) ==
  IF f = "rest.Login" THEN R(<<"rest.Login">>, BackendFault, 0, "")
  ELSE [cb EXCEPT !.calls = <<"rest.Login">> \o @ \o <<"rest.Logout">>]

\* ConfigureContent: no content source leaves contentlib nil; otherwise the
\* library is looked up by ID and, failing that, by name
ConfigureContent(contentSource, f) ==
  IF contentSource = "" THEN R(<<>>, NoErr, 0, "")
  ELSE Wrapped(WithRestClient(f,
         IF f = "GetLibrary"
           THEN R(<<"GetLibraryByID", "GetLibraryByName">>, BackendFault, 0, "")
           ELSE R(<<"GetLibraryByID">>, NoErr, 0, contentSource)))

\* failure points of a session construction
SessionFailPoints == {"none", "NewClient", "initSession", "rest.Login", "GetLibrary"}

\* the Session, or the error; client: what became of the backend connection
\* ("none": never opened)
Built(cc, id, cfg) ==
  IF cc.err # NoErr
    THEN [ses |-> NoSession, err |-> cc.err, client |-> "open"]
    ELSE [ses |-> [id |-> id, contentlib |-> cc.val, network |-> cfg.network],
          err |-> NoErr, client |-> "open"]

NewSessionAndConfigureSwallowsError(id, cfg, f) ==
  IF f = "NewClient"
    THEN [ses |-> NoSession, err |-> Wrap(BackendFault), client |-> "none"]
  ELSE [ses |-> [id |-> id, contentlib |-> cfg.contentSource, network |-> cfg.network],
        err |-> NoErr, client |-> "open"]

NewSessionAndConfigure(id, cfg, f) ==
  IF f = "NewClient"
    THEN [ses |-> NoSession, err |-> Wrap(BackendFault), client |-> "none"]
  ELSE IF f = "initSession"
    THEN [ses |-> NoSession, err |-> Wrap(NotFoundError), client |-> "loggedOut"]
  ELSE Built(ConfigureContent(cfg.contentSource, f), id, cfg)

\* whether the backend really let the construction through
ConstructionSucceeds(cfg, f) ==
  f = "none" \/ (cfg.contentSource = "" /\ f \in {"rest.Login", "GetLibrary"})

(***************************************************************************)
(* Desired state and environment of one provider call                      *)
(***************************************************************************)
NsxtNetworkType == "nsx-t"
PoweredOn == "poweredOn"
PoweredOff == "poweredOff"

\* network types of the interfaces of a VM spec ("": the default provider)
NetworkTypes == {"", NsxtNetworkType, "bogus"}
NifLists == {<<>>} \cup {<<t>> : t \in NetworkTypes}
\* VmMetadata.Transport ("": the spec has no VmMetadata)
Transports == {"", "ExtraConfig", "CloudInit"}
PowerStates == {"", PoweredOn, PoweredOff}

\* the namespace whose VMs the provider calls are about (the session cache
\* holds a second namespace and the key of the image calls besides)
Tenants == {"ns1"}

VMSpecs ==
  [ns : Tenants, name : VMNames, image : {""} \cup ImageNames, nifs : NifLists,
   transport : Transports, power : PowerStates]

\* a VM named by namespace and name only (Exists, Delete and the image calls)
NamedVM(ns, name) ==
  [ns |-> ns, name |-> name, image |-> "", nifs |-> <<>>, transport |-> "", power |-> ""]

\* VirtualMachineStatus: the lifecycle phase, which the controller owns, and
\* fields observed on the backend
NoStatus == [phase |-> "", powerState |-> "", host |-> ""]
\* vm.Status as the caller passes it in
CallerStatuses ==
  {[phase |-> "Creating", powerState |-> "", host |-> ""],
   [phase |-> "Created", powerState |-> "poweredOff", host |-> "host0"]}
\* what resVm.GetStatus reads from the backend
BackendStatuses == {[phase |-> "Unknown", powerState |-> "poweredOn", host |-> "host1"]}

\* network devices (by key) the remote VM is found to have
DeviceLists == {<<4000, 4001>>}
\* what the content library holds under the image name: number of items, type
\* of the first
NoLibrary == [items |-> 0, type |-> "ovf"]
Libraries ==
  {NoLibrary, [items |-> 1, type |-> "ovf"], [items |-> 1, type |-> "iso"],
   [items |-> 2, type |-> "ovf"]}

(***************************************************************************)
(* Session: configuration descriptor and device changes                    *)
(***************************************************************************)
(***************************************************************************)
(* Quantities.  resource.Quantity.Value() is an int64; a non-negative one  *)
(* is written here as its Int64Limbs digits of base LimbBase, the most     *)
(* significant first, so that every int64 value and every step of the      *)
(* float64 arithmetic of the conversions is computed exactly.              *)
(***************************************************************************)
LimbBase == 2^10
\* 7 digits of 10 bits hold the 63 value bits of an int64
Int64Limbs == 7
LimbIdx == 1..Int64Limbs

Zero == [i \in LimbIdx |-> 0]

\* the quantity of a small number (below 2^31)
Quantity(n) ==
  [i \in LimbIdx |->
     IF Int64Limbs - i > 3 THEN 0 ELSE (n \div LimbBase^(Int64Limbs - i)) % LimbBase]

\* q + 1 on the digits 1..k of q
IncAt(q, k) ==
  LET free == {i \in 1..k : q[i] # LimbBase - 1}
      j == CHOOSE i \in free : \A h \in free : h <= i
  IN [i \in LimbIdx |-> IF i < j \/ i > k THEN q[i] ELSE IF i = j THEN q[i] + 1 ELSE 0]

Inc(q) == IncAt(q, Int64Limbs)

\* q - 1, for q above zero
Dec(q) ==
  LET set == {i \in LimbIdx : q[i] # 0}
      j == CHOOSE i \in set : \A h \in set : h <= i
  IN [i \in LimbIdx |-> IF i < j THEN q[i] ELSE IF i = j THEN q[i] - 1 ELSE LimbBase - 1]

\* the order of quantities
Less(p, q) ==
  \E i \in LimbIdx : p[i] < q[i] /\ \A h \in 1..(i - 1) : p[h] = q[h]

Leq(p, q) == p = q \/ Less(p, q)

\* long division of q by a small d (at most 2^20): the remainder after the
\* first i digits, the quotient, the remainder
RECURSIVE RemAt(_, _, _)
RemAt(q, d, i) == IF i = 0 THEN 0 ELSE (RemAt(q, d, i - 1) * LimbBase + q[i]) % d

QuotBy(q, d) == [i \in LimbIdx |-> (RemAt(q, d, i - 1) * LimbBase + q[i]) \div d]

RemBy(q, d) == RemAt(q, d, Int64Limbs)

\* q * d for a small d (at most 2^20): the carry out of digit i, the product
RECURSIVE CarryMul(_, _, _)
CarryMul(q, d, i) ==
  IF i > Int64Limbs THEN 0 ELSE (q[i] * d + CarryMul(q, d, i + 1)) \div LimbBase

MulBy(q, d) == [i \in LimbIdx |-> (q[i] * d + CarryMul(q, d, i + 1)) % LimbBase]

\* p + q: the carry out of digit i, the sum
RECURSIVE CarryAdd(_, _, _)
CarryAdd(p, q, i) ==
  IF i > Int64Limbs THEN 0 ELSE (p[i] + q[i] + CarryAdd(p, q, i + 1)) \div LimbBase

Add(p, q) == [i \in LimbIdx |-> (p[i] + q[i] + CarryAdd(p, q, i + 1)) % LimbBase]

\* the quantity written in decimal as three groups: a * 10^12 + b * 10^6 + c
Decimal(a, b, c) ==
  Add(MulBy(Add(MulBy(Quantity(a), 10^6), Quantity(b)), 10^6), Quantity(c))

\* number of bits of a small number, of a quantity
RECURSIVE BitLen(_)
BitLen(n) == IF n = 0 THEN 0 ELSE 1 + BitLen(n \div 2)

Bits(q) ==
  LET set == {i \in LimbIdx : q[i] # 0}
      t == CHOOSE i \in set : \A h \in set : i <= h
  IN IF set = {} THEN 0 ELSE 10 * (Int64Limbs - t) + BitLen(q[t])

\* significand bits of a float64
Float64Precision == 53

\* float64(q): q rounded to 53 significant bits, ties to the even significand
Float64(q) ==
  IF Bits(q) <= Float64Precision THEN q
  ELSE LET u == 2^(Bits(q) - Float64Precision)
           low == q[Int64Limbs] % u
           down == [q EXCEPT ![Int64Limbs] = @ - low]
           up == IF down[Int64Limbs] + u < LimbBase
                   THEN [down EXCEPT ![Int64Limbs] = @ + u]
                   ELSE IncAt([down EXCEPT ![Int64Limbs] = @ + u - LimbBase], Int64Limbs - 1)
           odd == IF u < LimbBase
                    THEN (q[Int64Limbs] \div u) % 2 = 1
                    ELSE q[Int64Limbs - 1] % 2 = 1
       IN IF 2 * low < u THEN down
          ELSE IF 2 * low > u THEN up
          ELSE IF odd THEN up ELSE down

\* math.Ceil(x / d) for a float64 x that holds an integer and a divisor d
\* that is a power of two: the quotient is exact
CeilQuotientPow2(x, d) == IF RemBy(x, d) = 0 THEN QuotBy(x, d) ELSE Inc(QuotBy(x, d))

\* math.Ceil(x / d) for a float64 x that holds an integer: the quotient
\* k + r/d is rounded to 53 bits before the ceiling, and rounds to k when
\* r/d is at most half the distance 2^(Bits(k) - 53) of neighbouring floats
CeilQuotient(x, d) ==
  LET k == QuotBy(x, d)
      r == RemBy(x, d)
      shift == Float64Precision + 1 - Bits(k)
  IN IF r = 0 THEN k
     ELSE IF k # Zero /\ shift < 20 /\ r <= d \div 2^shift THEN k
     ELSE Inc(k)

memoryQuantityToMb(q) == CeilQuotientPow2(Float64(q), 1024 * 1024)

cpuQuantityToMhz(q) == CeilQuotient(Float64(q), 1000 * 1000)

\* VirtualMachineClassSpec: hardware and resource policies, in bytes and Hz
NoClass ==
  [cpus |-> 1, memory |-> Zero, reqCpu |-> Zero, limCpu |-> Zero, reqMem |-> Zero,
   limMem |-> Zero]
Classes ==
  {[cpus |-> 2, memory |-> Quantity(1500000000), reqCpu |-> Quantity(1500000),
    limCpu |-> Zero, reqMem |-> Quantity(1048576), limMem |-> Quantity(1048577)]}

getNetworkProviderByType(networkType) ==
  IF networkType \in {NsxtNetworkType, ""}
    THEN NoErr
    ELSE Errorf("failed to create network provider")

deviceSpecsFromVMOneKey(vm, f) ==
  LET n == Len(vm.nifs)
      bad == {i \in 1..n : getNetworkProviderByType(vm.nifs[i]) # NoErr}
  IN IF f = "CreateVnic" /\ n > 0
       THEN R(<<"CreateVnic">>, Wrap(BackendFault), 0, <<>>)
     ELSE IF bad # {}
       THEN R(<<>>, Wrap(Errorf("failed to create network provider")), 0, <<>>)
     ELSE R([i \in 1..n |-> "CreateVnic"], NoErr, 0,
            [i \in 1..n |-> [operation |-> "add", key |-> -100, backing |-> vm.nifs[i]]])

\* deviceSpecsFromVM: one add per interface, keys -100, -101, ...; it returns
\* at the first interface whose provider or vnic cannot be made
deviceSpecsFromVM(vm, f) ==
  LET n == Len(vm.nifs)
      bad == {i \in 1..n : getNetworkProviderByType(vm.nifs[i]) # NoErr}
      stop == IF bad = {} THEN n + 1 ELSE CHOOSE i \in bad : \A j \in bad : i <= j
  IN IF f = "CreateVnic" /\ stop > 1
       THEN R(<<"CreateVnic">>, Wrap(BackendFault), 0, <<>>)
     ELSE IF stop <= n
       THEN R([i \in 1..(stop - 1) |-> "CreateVnic"],
              Wrap(getNetworkProviderByType(vm.nifs[stop])), 0, <<>>)
     ELSE R([i \in 1..n |-> "CreateVnic"], NoErr, 0,
            [i \in 1..n |->
               [operation |-> "add", key |-> -100 - (i - 1), backing |-> vm.nifs[i]]])

\* the devices get the default network as their backing, in place
EditBacking(s, devs, f) ==
  IF f = "EthernetCardBackingInfo" /\ Len(devs) > 0
    THEN R(<<>>, Wrap(BackendFault), 0, <<>>)
    ELSE R(<<>>, NoErr, 0,
           [i \in 1..Len(devs) |->
              [operation |-> "edit", key |-> devs[i], backing |-> s.network]])

AddThenRemove(devs, adds) ==
  IF adds.err # NoErr THEN adds
  ELSE [adds EXCEPT !.val =
          @ \o
          [i \in 1..Len(devs) |-> [operation |-> "remove", key |-> devs[i], backing |-> ""]]]

\* every existing device is removed, then the new ones are added
RemoveThenAdd(devs, adds) ==
  IF adds.err # NoErr THEN adds
  ELSE [adds EXCEPT !.val =
          [i \in 1..Len(devs) |-> [operation |-> "remove", key |-> devs[i], backing |-> ""]]
          \o @]

deviceChangeSpecsAlwaysReplaces(s, vm, devs, f) ==
  Then(Call("GetNetworkDevices", f), RemoveThenAdd(devs, deviceSpecsFromVM(vm, f)))

\* deviceChangeSpecs: no desired interface leaves the devices alone (or edits
\* their backing to the default network); otherwise remove all, add the new
deviceChangeSpecs(s, vm, devs, f) ==
  Then(Call("GetNetworkDevices", f),
       IF Len(vm.nifs) = 0
         THEN IF s.network # "" THEN EditBacking(s, devs, f) ELSE R(<<>>, NoErr, 0, <<>>)
         ELSE RemoveThenAdd(devs, deviceSpecsFromVM(vm, f)))

configSpecFromClassSpecZeroIsSet(s, name, vm, class, deviceSpecs) ==
  IF vm.transport \notin {"", "ExtraConfig"}
    THEN R(<<>>, Errorf("unsupported metadata transport"), 0, <<>>)
    ELSE R(<<>>, NoErr, 0,
           [name |-> name,
            numCPUs |-> class.cpus,
            memoryMB |-> memoryQuantityToMb(class.memory),
            cpuReservation |-> {cpuQuantityToMhz(class.reqCpu)},
            cpuLimit |-> {cpuQuantityToMhz(class.limCpu)},
            memReservation |-> {memoryQuantityToMb(class.reqMem)},
            memLimit |-> {memoryQuantityToMb(class.limMem)},
            extraConfig |-> vm.transport = "ExtraConfig",
            deviceChange |-> deviceSpecs])

\* configSpecFromClassSpec: reservations and limits only for non-zero
\* quantities (a pointer field is the set of what it points to: empty when
\* nil); only the ExtraConfig transport is supported
configSpecFromClassSpec(s, name, vm, class, deviceSpecs) ==
  IF vm.transport \notin {"", "ExtraConfig"}
    THEN R(<<>>, Errorf("unsupported metadata transport"), 0, <<>>)
    ELSE R(<<>>, NoErr, 0,
           [name |-> name,
            numCPUs |-> class.cpus,
            memoryMB |-> memoryQuantityToMb(class.memory),
            cpuReservation |->
              IF class.reqCpu # Zero THEN {cpuQuantityToMhz(class.reqCpu)} ELSE {},
            cpuLimit |->
              IF class.limCpu # Zero THEN {cpuQuantityToMhz(class.limCpu)} ELSE {},
            memReservation |->
              IF class.reqMem # Zero THEN {memoryQuantityToMb(class.reqMem)} ELSE {},
            memLimit |->
              IF class.limMem # Zero THEN {memoryQuantityToMb(class.limMem)} ELSE {},
            extraConfig |-> vm.transport = "ExtraConfig",
            deviceChange |-> deviceSpecs])

(***************************************************************************)
(* Session: lifecycle operations                                           *)
(***************************************************************************)
\* SetPowerState as it appears among the calls
SetPowerStateCall(state) == "SetPowerState:" \o state
PowerCalls == {SetPowerStateCall(st) : st \in {PoweredOn, PoweredOff}}

\* a backend call that, when it succeeds, adds a VM of the VM's name
Making(a) == IF a.err = NoErr THEN [a EXCEPT !.made = 1] ELSE a

\* lookupVm: Finder.VirtualMachine by name, then NewVMFromObject
lookupVm(inv, name, f) ==
  IF f = "Finder.VirtualMachine" THEN R(<<"Finder.VirtualMachine">>, BackendFault, 0, "")
  ELSE IF inv[name] = 0 THEN R(<<"Finder.VirtualMachine">>, NotFoundError, 0, "")
  ELSE IF inv[name] > 1 THEN R(<<"Finder.VirtualMachine">>, MultipleFoundError, 0, "")
  ELSE IF f = "NewVMFromObject" THEN R(<<"Finder.VirtualMachine">>, BackendFault, 0, "")
  ELSE R(<<"Finder.VirtualMachine">>, NoErr, 0, "")

createVmPowersOnAnyway(name, configSpec, f) ==
  [Making(Call("Create", f)) EXCEPT
     !.calls = @ \o <<SetPowerStateCall(PoweredOn)>>]

\* createVm: create in the session's folder and pool, then power on
createVm(name, configSpec, f) ==
  Then(Making(Call("Create", f)),
       CallAs(SetPowerStateCall(PoweredOn), "SetPowerState", f))

cloneVm(cloneSpec, f) == Making(Call("Clone", f))

\* deployOvf: deploy the library item over a scoped REST connection, then
\* resolve the deployed object
deployOvf(f) ==
  Then(WithRestClient(f, Making(Call("DeployLibraryItem", f))),
       Call("ObjectReference", f))

IsSupportedDeployType(t) == t = "ovf"

\* LibItemToVirtualMachineImage with AnnotateVmImage
LibItemToVirtualMachineImage(f) ==
  IF f = "FetchOvfProperties"
    THEN R(<<"FetchOvfProperties">>, BackendFault, 0, "")
    ELSE R(<<"FetchOvfProperties">>, NoErr, 0, "Content Library")

\* GetVirtualMachineImageFromCL: the first library item of that name
GetVirtualMachineImageFromCL(lib, f) ==
  Then(WithRestClient(f,
         Then(Call("FindLibraryItems", f),
              IF lib.items > 0 THEN Call("GetLibraryItem", f) ELSE R(<<>>, NoErr, 0, ""))),
       IF lib.items = 0 THEN R(<<>>, Errorf("item is not found in CL"), 0, "")
       ELSE IF ~IsSupportedDeployType(lib.type)
         THEN R(<<>>, Errorf("item not a supported type"), 0, "")
       ELSE LibItemToVirtualMachineImage(f))

\* processStorageClass: the disks are read only when a profile is given
processStorageClass(profileID, f) ==
  IF profileID = "" THEN R(<<>>, NoErr, 0, "") ELSE Call("GetVirtualDisks", f)

CloneSpecPowersOnUnlessOff(vm, d) ==
  R(<<>>, NoErr, 0, [powerOn |-> vm.power # PoweredOff, memory |-> FALSE,
                     deviceChange |-> d.val])

\* the VirtualMachineCloneSpec: no full memory clone, power on as the spec says
CloneSpec(vm, d) ==
  R(<<>>, NoErr, 0, [powerOn |-> vm.power = PoweredOn, memory |-> FALSE,
                     deviceChange |-> d.val])

\* getCloneSpec: device changes, configuration descriptor, placement
getCloneSpec(s, name, vm, class, profileID, devs, f) ==
  LET d == deviceChangeSpecs(s, vm, devs, f)
  IN Then(processStorageClass(profileID, f),
     Then(d,
     Then(configSpecFromClassSpec(s, name, vm, class, <<>>),
     Then(Call("computeVMPlacement", f),
          CloneSpec(vm, d)))))

Session_CreateVirtualMachine(s, vm, class, f) ==
  LET d == deviceSpecsFromVM(vm, f)
      c == configSpecFromClassSpec(s, vm.name, vm, class, d.val)
  IN Then(d, Then(c, Wrapped(createVm(vm.name, c.val, f))))

DeployFromLibraryReconfiguresAnyway(s, vm, profileID, lib, devs, f) ==
  LET d == Then(GetVirtualMachineImageFromCL(lib, f), Wrapped(deployOvf(f)))
  IN [d EXCEPT !.calls = @ \o <<"Reconfigure">>]

\* the deploy path: library item, deploy, device changes, reconfigure
DeployFromLibrary(s, vm, profileID, lib, devs, f) ==
  Then(GetVirtualMachineImageFromCL(lib, f),
  Then(Wrapped(deployOvf(f)),
  Then(Wrapped(deviceChangeSpecs(s, vm, devs, f)),
       Wrapped(Call("Reconfigure", f)))))

\* the clone path: source VM by name, clone spec, clone
CloneFromVM(s, vm, class, profileID, inv, devs, f) ==
  LET cs == getCloneSpec(s, vm.name, vm, class, profileID, devs, f)
  IN Then(lookupVm(inv, vm.image, f),
     Then(Wrapped(cs),
          Wrapped(cloneVm(cs.val, f))))

\* the clone path taken also when the library has no such image
OrElse(a, b) == IF a.err # NoErr /\ a.made = 0 THEN [b EXCEPT !.calls = a.calls \o @] ELSE a

Session_CloneVirtualMachineFallsBack(s, vm, class, profileID, inv, lib, devs, f) ==
  IF s.contentlib # ""
    THEN OrElse(DeployFromLibrary(s, vm, profileID, lib, devs, f),
                CloneFromVM(s, vm, class, profileID, inv, devs, "none"))
    ELSE CloneFromVM(s, vm, class, profileID, inv, devs, f)

\* CloneVirtualMachine: with a content library, deploy the library item and
\* reconfigure its devices; without one, clone the VM named by the image
Session_CloneVirtualMachine(s, vm, class, profileID, inv, lib, devs, f) ==
  IF s.contentlib # ""
    THEN DeployFromLibrary(s, vm, profileID, lib, devs, f)
    ELSE CloneFromVM(s, vm, class, profileID, inv, devs, f)

\* the members of a set of numbers, in increasing order
InOrder(set) ==
  [k \in 1..Cardinality(set) |-> CHOOSE i \in set : Cardinality({j \in set : j < i}) = k - 1]

\* no customization spec (nil)
NoCustomization == [has |-> FALSE, mappings |-> <<>>]

getCustomizationSpecsFailsOnPartial(vm, ips, f) ==
  LET nsx == {i \in 1..Len(vm.nifs) : vm.nifs[i] = NsxtNetworkType}
  IN IF nsx = {} THEN R(<<>>, NoErr, 0, NoCustomization)
     ELSE IF f = "waitForVnetIFStatus" \/ \E i \in nsx : ips[i] # 1
       THEN R(<<"waitForVnetIFStatus">>, Err("timeout"), 0, NoCustomization)
     ELSE R([i \in 1..Cardinality(nsx) |-> "waitForVnetIFStatus"], NoErr, 0,
            [has |-> TRUE, mappings |-> InOrder(nsx)])

\* getCustomizationSpecs: waits for the status of every NSX-T interface, in
\* order; nil without such an interface; otherwise one adapter mapping, here
\* the number of its interface, per status that has exactly one IP address.
\* ips: the number of IP addresses in the status of each interface
getCustomizationSpecs(vm, ips, f) ==
  LET nsx == {i \in 1..Len(vm.nifs) : vm.nifs[i] = NsxtNetworkType}
  IN IF nsx = {} THEN R(<<>>, NoErr, 0, NoCustomization)
     ELSE IF f = "waitForVnetIFStatus"
       THEN R(<<"waitForVnetIFStatus">>, Err("timeout"), 0, NoCustomization)
     ELSE R([i \in 1..Cardinality(nsx) |-> "waitForVnetIFStatus"], NoErr, 0,
            [has |-> TRUE, mappings |-> InOrder({i \in nsx : ips[i] = 1})])

(***************************************************************************)
(* SessionManager.GetSession as one sequential call sees it: the cached    *)
(* Session of the key, or a newly constructed one, which is cached only    *)
(* when the construction succeeded.                                        *)
(***************************************************************************)
Fresh(r) == [ses |-> r.ses, err |-> r.err, built |-> r.err = NoErr]

SessionManager_GetSession(cache, nextId, cfg, key, f) ==
  IF cache[key] # NoSession
    THEN [ses |-> cache[key], err |-> NoErr, built |-> FALSE]
    ELSE Fresh(NewSessionAndConfigure(nextId, cfg, f))

(***************************************************************************)
(* sequence.VirtualMachineDeleteSequence (not part of the sources at hand: *)
(* its steps are modelled from the specification): the steps run in order  *)
(* and the first failing step ends the sequence with its error.            *)
(***************************************************************************)
DeleteSteps == <<"ShutdownGuest", "PowerOff", "Destroy">>

DeleteSequence_ExecuteRunsAll(f) ==
  IF f \in Range(DeleteSteps) THEN R(DeleteSteps, BackendFault, -1, "")
  ELSE R(DeleteSteps, NoErr, -1, "")

DeleteSequence_Execute(f) ==
  LET failing == {i \in 1..Len(DeleteSteps) : DeleteSteps[i] = f}
  IN IF failing = {}
       THEN R(DeleteSteps, NoErr, -1, "")
       ELSE R(SubSeq(DeleteSteps, 1, CHOOSE j \in failing : TRUE), BackendFault, 0, "")

(***************************************************************************)
(* VSphereVmProvider.  An operation's result also names key, the key it    *)
(* asked the session manager for, and g, the session manager's answer.     *)
(***************************************************************************)
\* the result of an operation: the session error, or what its body did;
\* zero is the value returned with an error
Ret(key, g, zero, body) ==
  IF g.err # NoErr
    THEN [key |-> key, g |-> g, calls |-> <<>>, raw |-> g.err, err |-> g.err,
          val |-> zero, made |-> 0]
    ELSE [key |-> key, g |-> g, calls |-> body.calls, raw |-> body.raw, err |-> body.err,
          val |-> IF body.err # NoErr THEN zero ELSE body.val, made |-> body.made]

\* the error of a, translated for the VM or the image of that name
TransformedVm(resource, a) == [a EXCEPT !.err = transformVmError(resource, a.err)]
TransformedVmImage(resource, a) == [a EXCEPT !.err = transformVmImageError(resource, a.err)]

\* the key the image operations ask the session manager for
ImageSessionKey(namespace) == ""

\* DoesVirtualMachineExist, lines 961-970: what the lookup's result means
ExistsAnswerTrustsAmbiguous(l) ==
  IF l.err = NoErr \/ IsMultipleFoundClass(l.err) THEN [l EXCEPT !.err = NoErr, !.val = "true"]
  ELSE IF IsNotFoundClass(l.err) THEN [l EXCEPT !.err = NoErr, !.val = "false"]
  ELSE l

ExistsAnswer(l) ==
  IF l.err = NoErr THEN [l EXCEPT !.val = "true"]
  ELSE IF IsNotFoundClass(l.err) THEN [l EXCEPT !.err = NoErr, !.val = "false"]
  ELSE l

DoesVirtualMachineExist(cache, nextId, cfg, inv, ns, name, f) ==
  Ret(ns, SessionManager_GetSession(cache, nextId, cfg, ns, f), "false",
      ExistsAnswer(lookupVm(inv, name, f)))

\* CreateVirtualMachine, lines 996-1003: create from scratch or clone
CreatesFromScratchByLibrary(s, vm) == s.contentlib = ""

CreatesFromScratch(s, vm) == vm.image = ""

\* the Session method the provider called, first among the calls
Via(method, a) == [a EXCEPT !.calls = <<method>> \o @]

\* Customize, only with a customization spec
Customize(cu, f) == IF cu.val.has THEN Call("Customize", f) ELSE R(<<>>, NoErr, 0, "")

\* mergeVmStatus: read the backend status, keep the caller's phase
mergeVmStatusTakesBackendPhase(status, backend, f) ==
  IF f = "GetStatus" THEN R(<<"GetStatus">>, Wrap(BackendFault), 0, status)
  ELSE R(<<"GetStatus">>, NoErr, 0, backend)

mergeVmStatus(status, backend, f) ==
  IF f = "GetStatus" THEN R(<<"GetStatus">>, Wrap(BackendFault), 0, status)
  ELSE R(<<"GetStatus">>, NoErr, 0, [backend EXCEPT !.phase = status.phase])

\* the reference the backend gives the n-th VM of a name
ReferenceValue(name, n) == <<"VirtualMachine", name, n>>

\* the annotations of an object: pairs of a key and its value
VmOperatorVmProviderKey == "pkg.VmOperatorVmProviderKey"
VmOperatorMoRefKey == "pkg.VmOperatorKey/moref"
VsphereVmProviderName == "vsphere"

\* addProviderAnnotations: the name of the provider and the reference of the
\* backend VM, over whatever these two keys held
addProviderAnnotations(annotations, referenceValue) ==
  {a \in annotations : a[1] \notin {VmOperatorVmProviderKey, VmOperatorMoRefKey}}
    \cup {<<VmOperatorVmProviderKey, VsphereVmProviderName>>,
          <<VmOperatorMoRefKey, referenceValue>>}

\* the result of CreateVirtualMachine with the annotations of the VM as it
\* leaves them: the provider annotations are added after everything else
\* succeeded
AnnotatedAnyway(r, annotations, referenceValue) ==
  [key |-> r.key, g |-> r.g, calls |-> r.calls, raw |-> r.raw, err |-> r.err, val |-> r.val,
   made |-> r.made, annotations |-> addProviderAnnotations(annotations, referenceValue)]

Annotated(r, annotations, referenceValue) ==
  [key |-> r.key, g |-> r.g, calls |-> r.calls, raw |-> r.raw, err |-> r.err, val |-> r.val,
   made |-> r.made,
   annotations |-> IF r.err = NoErr THEN addProviderAnnotations(annotations, referenceValue)
                   ELSE annotations]

CreateVirtualMachine(cache, nextId, cfg, inv, vm, status, annotations, class, profileID, lib, devs, ips, backend, f) ==
  LET vmName == NamespacedName(vm.ns, vm.name)
      g == SessionManager_GetSession(cache, nextId, cfg, vm.ns, f)
      cu == getCustomizationSpecs(vm, ips, f)
      r ==
        Ret(vm.ns, g, status,
            Then(TransformedVm(vmName,
                   IF CreatesFromScratch(g.ses, vm)
                     THEN Via("Session.CreateVirtualMachine",
                              Session_CreateVirtualMachine(g.ses, vm, class, f))
                     ELSE Via("Session.CloneVirtualMachine",
                              Session_CloneVirtualMachine(g.ses, vm, class, profileID, inv,
                                                          lib, devs, f))),
            Then(cu,
            Then(TransformedVm(vmName, Customize(cu, f)),
                 TransformedVm(vmName, mergeVmStatus(status, backend, f))))))
  IN Annotated(r, annotations, ReferenceValue(vm.name, inv[vm.name] + r.made))

updatePowerStateSkipsUnset(vm, f) ==
  IF vm.power = "" THEN R(<<>>, NoErr, 0, "")
  ELSE Wrapped(CallAs(SetPowerStateCall(vm.power), "SetPowerState", f))

\* updatePowerState: the spec's power state, on when it is unset
updatePowerState(vm, f) ==
  Wrapped(CallAs(SetPowerStateCall(IF vm.power # "" THEN vm.power ELSE PoweredOn),
                 "SetPowerState", f))

reconfigureVm(f) == Call("Reconfigure", f)

\* updateVm: the power state only after a successful reconfigure
Both(a, b) == [a EXCEPT !.calls = @ \o b.calls]

updateVmAlwaysSetsPower(vm, f) == Both(Then(reconfigureVm(f), updatePowerState(vm, f)),
                                       IF f = "Reconfigure" THEN updatePowerState(vm, f)
                                       ELSE R(<<>>, NoErr, 0, ""))

updateVm(vm, f) == Then(reconfigureVm(f), updatePowerState(vm, f))

UpdateVirtualMachine(cache, nextId, cfg, inv, vm, status, class, devs, backend, f) ==
  LET vmName == NamespacedName(vm.ns, vm.name)
      g == SessionManager_GetSession(cache, nextId, cfg, vm.ns, f)
      d == deviceChangeSpecs(g.ses, vm, devs, f)
  IN Ret(vm.ns, g, status,
         Then(TransformedVm(vmName, lookupVm(inv, vm.name, f)),
         Then(TransformedVm(vmName, d),
         Then(TransformedVm(vmName,
                configSpecFromClassSpec(g.ses, vm.name, vm, class, d.val)),
         Then(TransformedVm(vmName, updateVm(vm, f)),
              TransformedVm(vmName, mergeVmStatus(status, backend, f)))))))

\* a missing VM counted as deleted
NotFoundIsDone(l) == IF IsNotFoundClass(l.err) THEN [l EXCEPT !.err = NoErr] ELSE l

DeleteVirtualMachineSwallowsNotFound(cache, nextId, cfg, inv, vm, f) ==
  Ret(vm.ns, SessionManager_GetSession(cache, nextId, cfg, vm.ns, f), "",
      IF inv[vm.name] = 0 /\ f # "Finder.VirtualMachine"
        THEN NotFoundIsDone(lookupVm(inv, vm.name, f))
        ELSE Then(TransformedVm(NamespacedName(vm.ns, vm.name), lookupVm(inv, vm.name, f)),
                  DeleteSequence_Execute(f)))

DeleteVirtualMachine(cache, nextId, cfg, inv, vm, f) ==
  Ret(vm.ns, SessionManager_GetSession(cache, nextId, cfg, vm.ns, f), "",
      Then(TransformedVm(NamespacedName(vm.ns, vm.name), lookupVm(inv, vm.name, f)),
           DeleteSequence_Execute(f)))

\* Session.ListVirtualMachines: no VM at all is an empty list, not an error
Session_ListVirtualMachines(inv, f) ==
  IF f = "Finder.VirtualMachineList"
    THEN R(<<"Finder.VirtualMachineList">>, BackendFault, 0, "")
    ELSE R(<<"Finder.VirtualMachineList">>, NoErr, 0, "Inventory")

\* Session.ListVirtualMachineImagesFromCL
ListVirtualMachineImagesFromCL(f) ==
  WithRestClient(f,
    IF f = "GetLibraryItems" THEN R(<<"GetLibraryItems">>, BackendFault, 0, "")
    ELSE R(<<"GetLibraryItems">>, NoErr, 0, "Content Library"))

\* the session of the image operations and what they do with it
ImagesRet(key, g, body) == Ret(key, g, "", body)

ListVirtualMachineImages(cache, nextId, cfg, inv, namespace, f) ==
  LET g == SessionManager_GetSession(cache, nextId, cfg, ImageSessionKey(namespace), f)
  IN ImagesRet(ImageSessionKey(namespace), g,
       IF g.ses.contentlib # ""
         THEN ListVirtualMachineImagesFromCL(f)
         ELSE TransformedVmImage("", Session_ListVirtualMachines(inv, f)))

\* GetVirtualMachineImage, lines 930-948: an image found in the library is
\* returned; a library error is returned; otherwise the inventory is asked
LibraryThenInventory(image, fromInventory) ==
  IF image.err # NoErr \/ image.val # "" THEN image
  ELSE [fromInventory EXCEPT !.calls = image.calls \o @]

GetVirtualMachineImage(cache, nextId, cfg, inv, namespace, name, lib, f) ==
  LET g == SessionManager_GetSession(cache, nextId, cfg, ImageSessionKey(namespace), f)
  IN ImagesRet(ImageSessionKey(namespace), g,
       LibraryThenInventory(
         IF g.ses.contentlib # "" THEN GetVirtualMachineImageFromCL(lib, f)
         ELSE R(<<>>, NoErr, 0, ""),
         TransformedVmImage(NamespacedName(namespace, name),
           [lookupVm(inv, name, f) EXCEPT !.val = IF @ = "" THEN "Inventory" ELSE @])))

(***************************************************************************)
(* State                                                                   *)
(***************************************************************************)
VARIABLES
  config,     \* the provider configuration the sessions are built from
  sessions,   \* SessionManager: the cache, key -> Session (NoSession: no entry)
  attempts,   \* number of session constructions started
  outcome,    \* per construction: "pending", "ok" or "failed" (what the backend did)
  flight,     \* per key: the construction in progress (0: none)
  pc,         \* per caller of GetSession: "idle", "build", "wait", "done"
  ckey,       \* per caller: the key it asked for
  cflight,    \* per caller: the construction it ran or waited for (0: cache hit)
  cres,       \* per caller: what GetSession returned to it
  inventory,  \* backend: name -> number of VMs of that name
  last,       \* the provider call in progress: its inputs and what it did
  fn,         \* the function of the Session last applied: its inputs and its result
  wait,       \* the customization wait of a CreateVirtualMachine in progress
  fake,       \* the fake VMProvider, and the calls made on it
  stored,     \* the VirtualMachine the API server stores, and the last admission request
  crypto      \* the crypto status and condition of a VM, and the last OnResult call

vars ==
  <<config, sessions, attempts, outcome, flight, pc, ckey, cflight, cres, inventory, last,
    fn, wait, fake, stored, crypto>>

\* no VirtualMachine stored yet, no admission request made
NoObject ==
  [exists |-> FALSE, nextRestartTime |-> <<>>, powerState |-> "", response |-> "none",
   op |-> "none", requested |-> <<>>, oldTime |-> <<>>, oldPower |-> ""]

\* a VM the crypto reconciler has not seen: Status.Crypto nil (a pointer is
\* the set of what it points at), no EncryptionSynced condition
NoCondition == [status |-> "", reason |-> ""]
NoReconcile ==
  [status |-> {}, synced |-> NoCondition, call |-> [op |-> "none", panic |-> FALSE]]

\* no function of the Session applied yet
NoFn == [name |-> "none"]

\* no CreateVirtualMachine at its customization. pc: where the call is; nifs:
\* vm.Spec.NetworkInterfaces; i: the interface whose status is waited for;
\* elapsed: how long that wait has lasted; cancelled: the context of the call
\* is done; whenCancelled: the interface waited for when it became so
NoWait ==
  [pc |-> "idle", nifs |-> <<>>, i |-> 0, elapsed |-> 0, cancelled |-> FALSE,
   whenCancelled |-> 0, err |-> NoErr]

\* the VMs of the fake provider, by client.ObjectKey{Namespace, Name}
FakeKeys == {<<"ns1", "vm1">>, <<"ns1", "vm2">>, <<"ns2", "vm1">>}
\* the methods of the fake provider that have an override function
FakeMethods == {"DoesVirtualMachineExist", "CreateVirtualMachine", "UpdateVirtualMachine",
                "DeleteVirtualMachine"}

\* NewVMProvider. vmMap: the keys that have a VM; funcs: the methods whose
\* override function is set; call: the last call and what it returned;
\* recent: per key, the last of the Create, Update and Delete calls for it
\* since the provider was made or reset; plain: no override function was
\* set since then
NewVMProvider ==
  [vmMap |-> {}, funcs |-> {}, call |-> [method |-> "NewVMProvider"],
   recent |-> [k \in FakeKeys |-> "none"], plain |-> TRUE]

NoResult == [ses |-> NoSession, err |-> NoErr]

\* no provider call in progress
NoCall ==
  [op |-> "none", vm |-> NamedVM("ns1", "vm1"), f |-> "none", key |-> "", sid |-> 0,
   cl |-> "", pre |-> 0, calls |-> <<>>, raw |-> NoErr, err |-> NoErr, val |-> "",
   status0 |-> NoStatus, backend |-> NoStatus, status |-> NoStatus,
   annotations0 |-> {}, annotations |-> {}, referenceValue |-> ReferenceValue("vm1", 0)]

Init ==
  /\ config \in Configs
  /\ sessions = [k \in Keys |-> NoSession]
  /\ attempts = 0
  /\ outcome = [n \in 1..MaxAttempts |-> "pending"]
  /\ flight = [k \in Keys |-> 0]
  /\ pc = [c \in Callers |-> "idle"]
  /\ ckey = [c \in Callers |-> GlobalKey]
  /\ cflight = [c \in Callers |-> 0]
  /\ cres = [c \in Callers |-> NoResult]
  /\ inventory = [n \in Names |-> 0]
  /\ last = NoCall
  /\ fn = NoFn
  /\ wait = NoWait
  /\ fake = NewVMProvider
  /\ stored = NoObject
  /\ crypto = NoReconcile

(***************************************************************************)
(* SessionManager (pkg/vmprovider/providers/vsphere/sessionmanager.go is   *)
(* not part of the sources at hand: modelled from the specification).      *)
(***************************************************************************)
\* GetSession, entry: a cache hit returns at once; a caller that finds a
\* construction for its key in flight waits for it; otherwise it starts one
GetSessionEnterNoSingleFlight(c, k) ==
  /\ pc[c] = "idle"
  /\ ckey' = [ckey EXCEPT ![c] = k]
  /\ IF sessions[k] # NoSession
       THEN /\ pc' = [pc EXCEPT ![c] = "done"]
            /\ cres' = [cres EXCEPT ![c] = [ses |-> sessions[k], err |-> NoErr]]
            /\ cflight' = [cflight EXCEPT ![c] = 0]
            /\ UNCHANGED <<attempts, flight>>
       ELSE /\ attempts < MaxAttempts
            /\ attempts' = attempts + 1
            /\ flight' = [flight EXCEPT ![k] = attempts + 1]
            /\ pc' = [pc EXCEPT ![c] = "build"]
            /\ cflight' = [cflight EXCEPT ![c] = attempts + 1]
            /\ UNCHANGED cres
  /\ UNCHANGED <<config, fn, wait, fake, stored, crypto, sessions, outcome, inventory, last>>

GetSessionEnter(c, k) ==
  /\ pc[c] = "idle"
  /\ ckey' = [ckey EXCEPT ![c] = k]
  /\ IF sessions[k] # NoSession
       THEN /\ pc' = [pc EXCEPT ![c] = "done"]
            /\ cres' = [cres EXCEPT ![c] = [ses |-> sessions[k], err |-> NoErr]]
            /\ cflight' = [cflight EXCEPT ![c] = 0]
            /\ UNCHANGED <<attempts, flight>>
       ELSE IF flight[k] # 0
         THEN /\ pc' = [pc EXCEPT ![c] = "wait"]
              /\ cflight' = [cflight EXCEPT ![c] = flight[k]]
              /\ UNCHANGED <<attempts, flight, cres>>
         ELSE /\ attempts < MaxAttempts
              /\ attempts' = attempts + 1
              /\ flight' = [flight EXCEPT ![k] = attempts + 1]
              /\ pc' = [pc EXCEPT ![c] = "build"]
              /\ cflight' = [cflight EXCEPT ![c] = attempts + 1]
              /\ UNCHANGED cres
  /\ UNCHANGED <<config, fn, wait, fake, stored, crypto, sessions, outcome, inventory, last>>

\* GetSession, the construction ends: a Session is cached, an error is not;
\* the builder and every caller waiting for this construction get its result
GetSessionBuilt(c) ==
  /\ pc[c] = "build"
  /\ \E f \in SessionFailPoints :
       LET k == ckey[c]
           n == cflight[c]
           r == NewSessionAndConfigure(n, config, f)
           got == [ses |-> r.ses, err |-> r.err]
           served == {d \in Callers : d = c \/ (pc[d] = "wait" /\ cflight[d] = n)}
       IN /\ outcome' = [outcome EXCEPT ![n] =
                           IF ConstructionSucceeds(config, f) THEN "ok" ELSE "failed"]
          /\ sessions' = IF r.err = NoErr THEN [sessions EXCEPT ![k] = r.ses] ELSE sessions
          /\ flight' = [flight EXCEPT ![k] = 0]
          /\ pc' = [d \in Callers |-> IF d \in served THEN "done" ELSE pc[d]]
          /\ cres' = [d \in Callers |-> IF d \in served THEN got ELSE cres[d]]
  /\ UNCHANGED <<config, fn, wait, fake, stored, crypto, attempts, ckey, cflight, inventory, last>>

\* the caller takes the result and may call again
GetSessionReturn(c) ==
  /\ pc[c] = "done"
  /\ pc' = [pc EXCEPT ![c] = "idle"]
  /\ cres' = [cres EXCEPT ![c] = NoResult]
  /\ cflight' = [cflight EXCEPT ![c] = 0]
  /\ ckey' = [ckey EXCEPT ![c] = GlobalKey]
  /\ UNCHANGED <<config, fn, wait, fake, stored, crypto, sessions, attempts, outcome, flight, inventory, last>>

\* Invalidate(tenant): the cached Session is logged out and dropped
Invalidate(k) ==
  /\ sessions[k] # NoSession
  /\ sessions' = [sessions EXCEPT ![k] = NoSession]
  /\ UNCHANGED <<config, fn, wait, fake, stored, crypto, attempts, outcome, flight, pc, ckey, cflight, cres, inventory, last>>

\* InvalidateAll(): every cached Session is logged out and dropped
InvalidateAll ==
  /\ \E k \in Keys : sessions[k] # NoSession
  /\ sessions' = [k \in Keys |-> NoSession]
  /\ UNCHANGED <<config, fn, wait, fake, stored, crypto, attempts, outcome, flight, pc, ckey, cflight, cres, inventory, last>>

NextSM ==
  \/ \E c \in Callers, k \in Keys : GetSessionEnter(c, k)
  \/ \E c \in Callers : GetSessionBuilt(c)
  \/ \E c \in Callers : GetSessionReturn(c)
  \/ \E k \in Keys : Invalidate(k)
  \/ InvalidateAll

SpecSM == Init /\ [][NextSM]_vars

(***************************************************************************)
(* Provider calls.  A call is one step: the whole handler runs against the *)
(* inventory, its inputs and the failure point drawn for it.  The caller   *)
(* then takes the result (Forget) before the next call.                    *)
(***************************************************************************)
ProfileIDs == {"", "profile1"}

\* The failure points a call can meet: those of the session construction
\* when the key has no cached Session, and those of the path the call takes.
SessionPoints(key) == IF sessions[key] = NoSession THEN SessionFailPoints ELSE {"none"}

AfterCreatePoints == {"waitForVnetIFStatus", "Customize", "GetStatus"}
DevicePoints == {"GetNetworkDevices", "EthernetCardBackingInfo", "CreateVnic"}
LookupPoints == {"Finder.VirtualMachine", "NewVMFromObject"}
LibraryItemPoints == {"rest.Login", "FindLibraryItems", "GetLibraryItem", "FetchOvfProperties"}

CreateFailPoints(vm) ==
  SessionPoints(vm.ns) \cup AfterCreatePoints \cup
  (IF vm.image = "" THEN {"CreateVnic", "Create", "SetPowerState"}
   ELSE IF config.contentSource # ""
     THEN LibraryItemPoints \cup DevicePoints \cup
          {"DeployLibraryItem", "ObjectReference", "Reconfigure"}
   ELSE LookupPoints \cup DevicePoints \cup {"GetVirtualDisks", "computeVMPlacement", "Clone"})
UpdateFailPoints(vm) ==
  SessionPoints(vm.ns) \cup LookupPoints \cup DevicePoints \cup
  {"Reconfigure", "SetPowerState", "GetStatus"}
DeleteFailPoints(vm) == SessionPoints(vm.ns) \cup LookupPoints \cup {f : f \in Range(DeleteSteps)}
ExistsFailPoints(ns) == SessionPoints(ns) \cup LookupPoints
ImageFailPoints ==
  SessionFailPoints \cup LookupPoints \cup LibraryItemPoints \cup
  {"Finder.VirtualMachineList", "GetLibraryItems"}

\* the annotations of the VM object at the call: one of another controller
\* and, once the VM has been created, those of the create
CallerAnnotations(status) ==
  {<<"kubectl.kubernetes.io/restartedAt", "t0">>} \cup
  (IF status.phase = "Created"
     THEN {<<VmOperatorVmProviderKey, "other">>,
           <<VmOperatorMoRefKey, ReferenceValue("vm0", 1)>>}
     ELSE {})

\* the Session after an operation of the provider used it: the fields of the
\* Session are assigned by initSession and ConfigureContent only
SessionAfterReconfigured(op, s) ==
  IF op = "Update" /\ s # NoSession
    THEN [id |-> s.id, contentlib |-> "", network |-> s.network]
    ELSE s

SessionAfter(op, s) == s

\* the effect of a provider call on the state; val: the value it returned,
\* status0: vm.Status as passed in, backend: the status it read from the
\* backend, status: vm.Status as it left it
Effect(op, vm, f, r, val, status0, backend, status, annotations0, annotations) ==
  /\ inventory[vm.name] + r.made \in 0..MaxDup
  /\ inventory' = [inventory EXCEPT ![vm.name] = @ + r.made]
  /\ sessions' = [sessions EXCEPT ![r.key] = SessionAfter(op, IF r.g.built THEN r.g.ses ELSE @)]
  /\ attempts' = IF r.g.built THEN attempts + 1 ELSE attempts
  /\ last' = [op |-> op, vm |-> vm, f |-> f, key |-> r.key, sid |-> r.g.ses.id,
              cl |-> r.g.ses.contentlib, pre |-> inventory[vm.name], calls |-> r.calls,
              raw |-> r.raw, err |-> r.err, val |-> val,
              status0 |-> status0, backend |-> backend, status |-> status,
              annotations0 |-> annotations0, annotations |-> annotations,
              referenceValue |-> ReferenceValue(vm.name, inventory[vm.name] + r.made)]
  /\ UNCHANGED <<config, fn, wait, fake, stored, crypto, outcome, flight, pc, ckey, cflight, cres>>

\* a call that takes no VM object
Called(op, vm, f, r) == Effect(op, vm, f, r, r.val, NoStatus, NoStatus, NoStatus, {}, {})

\* the call read the status of the VM from the backend
StatusRead(f, r) == "GetStatus" \in Range(r.calls) /\ f # "GetStatus"

\* a call that takes the VM object and may update its status
CalledOnVM(op, vm, status, backend, f, r) ==
  Effect(op, vm, f, r, "", status, IF StatusRead(f, r) THEN backend ELSE NoStatus, r.val,
         {}, {})

\* a call that may also update the annotations of the VM object
CalledOnObject(op, vm, status, annotations, backend, f, r) ==
  Effect(op, vm, f, r, "", status, IF StatusRead(f, r) THEN backend ELSE NoStatus, r.val,
         annotations, r.annotations)

ProviderExists ==
  /\ last = NoCall
  /\ \E ns \in Tenants, name \in VMNames : \E f \in ExistsFailPoints(ns) :
       \E r \in {DoesVirtualMachineExist(sessions, attempts + 1, config, inventory, ns, name, f)} :
         Called("Exists", NamedVM(ns, name), f, r)

ProviderCreate ==
  /\ last = NoCall
  /\ \E vm \in VMSpecs, status \in CallerStatuses, class \in Classes,
        backend \in BackendStatuses :
       \E f \in CreateFailPoints(vm),
          profileID \in IF vm.image # "" /\ config.contentSource = "" THEN ProfileIDs ELSE {""},
          lib \in IF vm.image # "" /\ config.contentSource # "" THEN Libraries ELSE {NoLibrary},
          devs \in IF vm.image # "" THEN DeviceLists ELSE {<<>>},
          ips \in {[i \in 1..Len(vm.nifs) |-> 1]},
          annotations \in {CallerAnnotations(status)} :
         \E r \in {CreateVirtualMachine(sessions, attempts + 1, config, inventory, vm, status,
                                        annotations, class, profileID, lib, devs, ips, backend,
                                        f)} :
           CalledOnObject("Create", vm, status, annotations, backend, f, r)

ProviderUpdate ==
  /\ last = NoCall
  /\ \E vm \in VMSpecs, status \in CallerStatuses, class \in Classes, devs \in DeviceLists,
        backend \in BackendStatuses :
       \E f \in UpdateFailPoints(vm) :
         \E r \in {UpdateVirtualMachine(sessions, attempts + 1, config, inventory, vm, status,
                                        class, devs, backend, f)} :
           CalledOnVM("Update", vm, status, backend, f, r)

ProviderDelete ==
  /\ last = NoCall
  /\ \E ns \in Tenants, name \in VMNames : \E f \in DeleteFailPoints(NamedVM(ns, name)) :
       \E r \in {DeleteVirtualMachine(sessions, attempts + 1, config, inventory,
                                      NamedVM(ns, name), f)} :
         Called("Delete", NamedVM(ns, name), f, r)

ProviderListImages ==
  /\ last = NoCall
  /\ \E ns \in Tenants, f \in ImageFailPoints :
       \E r \in {ListVirtualMachineImages(sessions, attempts + 1, config, inventory, ns, f)} :
         Called("ListImages", NamedVM(ns, "img1"), f, r)

ProviderGetImage ==
  /\ last = NoCall
  /\ \E ns \in Tenants, name \in ImageNames, f \in ImageFailPoints :
       \E lib \in IF config.contentSource # "" THEN Libraries ELSE {NoLibrary} :
         \E r \in {GetVirtualMachineImage(sessions, attempts + 1, config, inventory, ns, name,
                                          lib, f)} :
           Called("GetImage", NamedVM(ns, name), f, r)

\* the caller takes the result of the call
Forget ==
  /\ last # NoCall
  /\ last' = NoCall
  /\ UNCHANGED <<config, fn, wait, fake, stored, crypto, sessions, attempts, outcome, flight, pc, ckey, cflight, cres,
                 inventory>>

\* another client of the backend adds or removes a VM of some name
BackendOutOfBand ==
  /\ last = NoCall
  /\ \E name \in Names, d \in {-1, 1} :
       /\ inventory[name] + d \in 0..MaxDup
       /\ inventory' = [inventory EXCEPT ![name] = @ + d]
  /\ UNCHANGED <<config, fn, wait, fake, stored, crypto, sessions, attempts, outcome, flight, pc, ckey, cflight, cres, last>>

Next ==
  \/ ProviderExists
  \/ ProviderCreate
  \/ ProviderUpdate
  \/ ProviderDelete
  \/ ProviderListImages
  \/ ProviderGetImage
  \/ Forget
  \/ BackendOutOfBand

Spec == Init /\ [][Next]_vars

(***************************************************************************)
(* GetExtraConfig.  A map is the set of its entries <<key, value>>, one    *)
(* per key; a nil map is the empty set of maps.                            *)
(***************************************************************************)
KeysOf(map) == {e[1] : e \in map}

\* mergedConfig[k] = v
Put(map, k, v) == {e \in map : e[1] # k} \cup {<<k, v>>}

\* for k, v := range from { into[k] = v }
RECURSIVE PutAll(_, _)
PutAll(into, from) ==
  IF from = {} THEN into
  ELSE LET e == CHOOSE x \in from : TRUE
       IN PutAll(Put(into, e[1], e[2]), from \ {e})

\* the orders a range over the map may take: the slices of its entries
Slices(map) ==
  {q \in [1..Cardinality(map) -> map] : \A i, j \in 1..Cardinality(map) : q[i] = q[j] => i = j}

GetExtraConfigGlobalWins(vmSpecMeta, globalMeta) ==
  IF globalMeta = {} THEN Slices(vmSpecMeta)
  ELSE Slices(PutAll(vmSpecMeta, CHOOSE g \in globalMeta : TRUE))

\* the slices GetExtraConfig may return: the VM's entries over a copy of the
\* global ones
GetExtraConfig(vmSpecMeta, globalMeta) ==
  IF globalMeta = {} THEN Slices(vmSpecMeta)
  ELSE Slices(PutAll(PutAll({}, CHOOSE g \in globalMeta : TRUE), vmSpecMeta))

(***************************************************************************)
(* The mutation webhook of the VirtualMachine: spec.nextRestartTime and    *)
(* the default network interface                                           *)
(***************************************************************************)
\* a string is the sequence of its characters
Letters == {"n", "N", "o", "O", "w", "W", "x"}
MaxChars == 3
Texts == UNION {[1..n -> Letters] : n \in 0..MaxChars}

\* the simple case folding of a character
Fold(c) ==
  CASE c = "N" -> "n"
    [] c = "O" -> "o"
    [] c = "W" -> "w"
    [] OTHER -> c

\* strings.EqualFold
EqualFold(s, t) ==
  /\ Len(s) = Len(t)
  /\ \A i \in 1..Len(s) : Fold(s[i]) = Fold(t[i])

\* time.Now().UTC().Format(time.RFC3339Nano), and the timestamp of an earlier
\* restart
Timestamp == <<"2", "0", "2", "4">>
EarlierTimestamp == <<"2", "0", "2", "3">>
VirtualMachinePowerStateOn == "PoweredOn"
VirtualMachinePowerStateOff == "PoweredOff"

\* the returned flag, the returned error and newVM.Spec.NextRestartTime after
\* the call
NextRestartTimes == Texts \cup {EarlierTimestamp}
Restart(ok, err, value) == [ok |-> ok, err |-> err, value |-> value]

SetNextRestartTimeKeepsNow(newTime, oldTime, oldPower) ==
  IF newTime = <<>> THEN Restart(oldTime # <<>>, NoErr, oldTime)
  ELSE IF EqualFold(<<"n", "o", "w">>, newTime) THEN Restart(FALSE, NoErr, newTime)
  ELSE IF newTime = oldTime THEN Restart(FALSE, NoErr, newTime)
  ELSE Restart(FALSE, Err("may only be set to \"now\""), newTime)


SetNextRestartTime(newTime, oldTime, oldPower) ==
  IF newTime = <<>>
  THEN Restart(oldTime # <<>>, NoErr, oldTime)
  ELSE IF EqualFold(<<"n", "o", "w">>, newTime)
  THEN IF oldPower # VirtualMachinePowerStateOn
       THEN Restart(FALSE, Err("can only restart powered on vm"), newTime)
       ELSE Restart(TRUE, NoErr, Timestamp)
  ELSE IF newTime = oldTime
  THEN Restart(FALSE, NoErr, newTime)
  ELSE Restart(FALSE, Err("may only be set to \"now\""), newTime)

\* SetDefaultPowerState: on for a new VM that names no power state
SetDefaultPowerState(powerState) ==
  IF powerState = "" THEN VirtualMachinePowerStateOn ELSE powerState

\* mutator.Mutate: the admission response and the object the API server goes
\* on with; resolves: ResolveImageNameOnCreate returned no error
Admitted(response, nextRestartTime, powerState) ==
  [response |-> response, nextRestartTime |-> nextRestartTime, powerState |-> powerState]

Mutate(op, newTime, newPower, oldTime, oldPower, resolves) ==
  IF op = "DELETE" THEN Admitted("Allowed", newTime, newPower)
  ELSE IF op = "CREATE"
    THEN IF resolves THEN Admitted("Patched", newTime, SetDefaultPowerState(newPower))
         ELSE Admitted("Denied", newTime, newPower)
  ELSE LET r == SetNextRestartTime(newTime, oldTime, oldPower)
       IN IF r.err # NoErr THEN Admitted("Denied", newTime, newPower)
          ELSE IF r.ok THEN Admitted("Patched", r.value, newPower)
          ELSE Admitted("Allowed", newTime, newPower)

\* pkgcfg.NetworkProviderType: the four kinds of provider and no provider
NetworkProviderTypes == {"NSXT", "VDS", "VPC", "NAMED", ""}
defaultInterfaceName == "eth0"
defaultNamedNetwork == "VM Network"

\* a pointer is the set of what it points at
PartialObjectRef(kind, apiVersion, name) ==
  [kind |-> kind, apiVersion |-> apiVersion, name |-> name]
InterfaceSpec(name, network) == [name |-> name, network |-> network]
NetworkSpec(disabled, interfaces) == [disabled |-> disabled, interfaces |-> interfaces]

\* the reference to the default network of the provider
networkRef(providerType, configured) ==
  CASE providerType = "NSXT" -> PartialObjectRef("VirtualNetwork", "vmware.com/v1alpha1", "")
    [] providerType = "VDS" -> PartialObjectRef("Network", "netoperator.vmware.com/v1alpha1", "")
    [] providerType = "VPC" -> PartialObjectRef("SubnetSet", "nsx.vmware.com/v1alpha1", "")
    [] OTHER -> PartialObjectRef("", "", IF configured = "" THEN defaultNamedNetwork ELSE configured)

\* one pass of the loop over an interface of the VM: the interface after it,
\* whether it was updated, whether a nil reference was read
FillInterface(ref, iface) ==
  LET typed ==
        IF ref.kind # "" /\ iface.network = {}
        THEN [network |-> {PartialObjectRef(ref.kind, ref.apiVersion, "")}, updated |-> TRUE]
        ELSE IF ref.kind # "" /\ \E n \in iface.network : n.kind = "" /\ n.apiVersion = ""
        THEN [network |-> {[n EXCEPT !.kind = ref.kind, !.apiVersion = ref.apiVersion] :
                             n \in iface.network},
              updated |-> TRUE]
        ELSE [network |-> iface.network, updated |-> FALSE]
  IN  IF ref.kind # "" /\ typed.network = {}
      THEN [iface |-> InterfaceSpec(iface.name, {PartialObjectRef("", "", ref.name)}),
            updated |-> typed.updated, panic |-> FALSE]
      ELSE IF ref.name # "" /\ typed.network = {}
      THEN [iface |-> InterfaceSpec(iface.name, typed.network), updated |-> typed.updated,
            panic |-> TRUE]
      ELSE IF ref.name # "" /\ \E n \in typed.network : n.name = ""
      THEN [iface |-> InterfaceSpec(iface.name,
                                    {[n EXCEPT !.name = ref.name] : n \in typed.network}),
            updated |-> TRUE, panic |-> FALSE]
      ELSE [iface |-> InterfaceSpec(iface.name, typed.network), updated |-> typed.updated,
            panic |-> FALSE]

\* the returned flag, vm.Spec.Network after the call, and whether the call
\* ended in a panic
Defaulted(updated, network, panic) == [updated |-> updated, network |-> network, panic |-> panic]

AddDefaultNetworkInterface(annotated, network, providerType, configured) ==
  IF annotated
  THEN Defaulted(FALSE, network, FALSE)
  ELSE IF \E n \in network : n.disabled
  THEN Defaulted(FALSE, network, FALSE)
  ELSE IF providerType \notin {"NSXT", "VDS", "VPC", "NAMED"}
  THEN Defaulted(FALSE, network, FALSE)
  ELSE LET ref == networkRef(providerType, configured)
           interfaces == IF network = {} THEN <<>> ELSE (CHOOSE n \in network : TRUE).interfaces
           disabled == \E n \in network : n.disabled
           filled == [i \in 1..Len(interfaces) |-> FillInterface(ref, interfaces[i])]
           stop == {i \in 1..Len(interfaces) : filled[i].panic}
           done == {i \in 1..Len(interfaces) : \A j \in stop : i < j}
       IN  IF Len(interfaces) = 0
           THEN Defaulted(TRUE,
                          {NetworkSpec(disabled, <<InterfaceSpec(defaultInterfaceName, {ref})>>)},
                          FALSE)
           ELSE Defaulted(\E i \in done : filled[i].updated,
                          {NetworkSpec(disabled,
                                       [i \in 1..Len(interfaces) |->
                                          IF i \in done THEN filled[i].iface ELSE interfaces[i]])},
                          stop # {})

(***************************************************************************)
(* The crypto reconciler after a reconfigure (package crypto): OnResult    *)
(***************************************************************************)
\* a fault of the reconfigure error: its type, its localized message, the
\* keys of its localizable messages, the power state an InvalidPowerState
\* names
Fault(type, localizedMessage, keys, existingState) ==
  [type |-> type, localizedMessage |-> localizedMessage, keys |-> keys,
   existingState |-> existingState]

\* the message OnResult appends for one localizable message of a fault, ""
\* for none
KeyMessage(type, key) ==
  CASE type = "GenericVmConfigFault" /\ key = "msg.vigor.enc.keyNotFound" -> "specify a valid key"
    [] type = "GenericVmConfigFault" /\ key = "msg.keysafe.locator" -> "specify a key that can be located"
    [] type = "GenericVmConfigFault" /\ key = "msg.vtpm.add.notEncrypted" -> "add vTPM"
    [] type = "GenericVmConfigFault" /\ key = "msg.vigor.enc.required.vtpm" -> "have vTPM"
    [] type = "NotSupported" /\ key = "msg.disk.policyChangeFailure" -> "not have encryption IO filter"
    [] type = "InvalidArgument" /\ key = "config.extraConfig[\"dataFileKey\"]" -> "not set secret key"
    [] type = "InvalidDeviceOperation" /\ key = "msg.hostd.deviceSpec.enc.encrypted" -> "not specify encrypted disk"
    [] type = "InvalidDeviceOperation" /\ key = "msg.hostd.deviceSpec.enc.notEncrypted" -> "not specify decrypted disk"
    [] type = "InvalidDeviceOperation"
         /\ key \notin {"msg.hostd.deviceSpec.enc.encrypted", "msg.hostd.deviceSpec.enc.notEncrypted"}
         -> "not add/remove device sans crypto spec"
    [] type = "InvalidDeviceSpec" /\ key = "msg.hostd.deviceSpec.enc.badPolicy" -> "have encryption IO filter"
    [] type = "InvalidDeviceSpec" /\ key = "msg.hostd.deviceSpec.enc.notDisk" -> "not apply only to disk"
    [] type = "InvalidDeviceSpec" /\ key = "msg.hostd.deviceSpec.enc.sharedBacking" -> "not have disk with shared backing"
    [] type = "InvalidDeviceSpec" /\ key = "msg.hostd.deviceSpec.enc.notFile" -> "not have raw disk mapping"
    [] type = "InvalidDeviceSpec" /\ key = "msg.hostd.configSpec.enc.mismatch" -> "not add encrypted disk"
    [] type = "InvalidDeviceSpec" /\ key = "msg.hostd.deviceSpec.add.noencrypt" -> "not add plain disk"
    [] type = "InvalidVmConfig" /\ key = "msg.hostd.configSpec.enc.snapshots" -> "not have snapshots"
    [] type = "InvalidVmConfig" /\ key = "msg.hostd.deviceSpec.enc.diskChain" -> "not have only disk snapshots"
    [] type = "InvalidVmConfig" /\ key = "msg.hostd.configSpec.enc.notEncrypted" -> "not be encrypted"
    [] type = "InvalidVmConfig" /\ key = "msg.hostd.configSpec.enc.encrypted" -> "be encrypted"
    [] type = "InvalidVmConfig" /\ key = "msg.hostd.configSpec.enc.mismatch" -> "have vm and disks with different encryption states"
    [] OTHER -> ""

\* the messages OnResult appends for one fault
FaultMessages(fault) ==
  CASE fault.type = "SystemError" ->
         ( CASE fault.localizedMessage = "Error creating disk Key locator" -> <<"specify a valid key">>
             [] fault.localizedMessage = "Key locator error" -> <<"specify a key that can be located">>
             [] fault.localizedMessage = "Key required for encryption.bundle." -> <<"not specify encryption bundle">>
             [] OTHER -> <<>> )
    [] fault.type = "InvalidPowerState" ->
         IF fault.existingState # "poweredOff" THEN <<"be powered off">> ELSE <<>>
    [] OTHER ->
         SelectSeq([i \in 1..Len(fault.keys) |-> KeyMessage(fault.type, fault.keys[i])],
                   LAMBDA msg : msg # "")

\* fault.In with the callback of OnResult, which never stops the walk: the
\* messages of every fault of the error, in order
RECURSIVE FaultIn(_)
FaultIn(resultErr) ==
  IF resultErr = <<>> THEN <<>>
  ELSE FaultMessages(Head(resultErr)) \o FaultIn(Tail(resultErr))

ReasonReconfigureError == "ReconfigureError"
VirtualMachineEncryptionTypeConfig == "Config"
VirtualMachineEncryptionTypeDisks == "Disks"

IsAnyOperation(operation) == TRUE

\* the reconfigure carried a crypto update
IsCryptoUpdate(operation) == operation \in {"encrypting", "recrypting"}

\* OnResult for a VM with Status.Crypto = status and the EncryptionSynced
\* condition = synced, a remote VM with the crypto key and with or without a
\* vTPM, the state of the context, and the reconfigure error (<<>> is nil):
\* the status and the condition after the call (its status and reason), the
\* messages handed to markEncryptionStateNotSynced with the operation, what
\* was marked, the returned error
OnResult(status, synced, key, isEncStorClass, vtpm, operation, resultErr) ==
  LET crypt ==
        IF key.provider = "" /\ key.id = "" THEN {}
        ELSE LET encrypted0 == IF status = {} THEN <<>> ELSE (CHOOSE c \in status : TRUE).encrypted
             IN  {[providerID |-> key.provider, keyID |-> key.id,
                   encrypted |->
                     IF isEncStorClass
                     THEN <<VirtualMachineEncryptionTypeConfig, VirtualMachineEncryptionTypeDisks>>
                     ELSE IF vtpm THEN <<VirtualMachineEncryptionTypeConfig>>
                     ELSE encrypted0]}
      msgs == FaultIn(resultErr)
  IN  IF resultErr = <<>>
      THEN IF IsCryptoUpdate(operation)
           THEN [status |-> crypt,
                 synced |-> [status |-> "True", reason |-> ""],
                 msgs |-> <<>>, marked |-> "True", err |-> NoErr]
           ELSE [status |-> crypt, synced |-> synced, msgs |-> <<>>, marked |-> "", err |-> NoErr]
      ELSE IF Len(msgs) > 0
      THEN [status |-> crypt,
            synced |-> [status |-> "False", reason |-> ReasonReconfigureError],
            msgs |-> msgs, marked |-> "False", err |-> NoErr]
      ELSE [status |-> crypt, synced |-> synced, msgs |-> msgs, marked |-> "", err |-> NoErr]

(***************************************************************************)
(* The functions of the Session that build the configuration descriptor,   *)
(* applied to inputs of their own (SpecFn)                                 *)
(***************************************************************************)
\* most network interfaces of a VM spec, most network devices of a remote VM
MaxNifs == 3
MaxDevs == 2
\* most IP addresses in the status of one network interface
MaxIPs == 2

\* q.Value(): the quantities around the units, the example of the
\* documentation, values of every size up to the int64 range, and values past
\* 2^53 that are not multiples of the unit
GridDigits == {0, 1, LimbBase - 1}
QuantitiesFn ==
  {Quantity(n) : n \in {0, 1, 999999, 1000000, 1000001, 1048575, 1048576, 1048577,
                        1500000, 1500000000}}
  \cup {q \in [LimbIdx -> GridDigits] : q[1] < 8}
  \cup {<<0, 8, 0, 0, 0, 0, 1>>, Decimal(9007, 200000, 1)}

\* the policies of a class: each of the four quantities zero or not
PolicyQuantities == {Zero, Quantity(1500000), Quantity(3000001)}
ClassesFn ==
  [cpus : {2}, memory : {Quantity(1500000000)}, reqCpu : PolicyQuantities,
   limCpu : PolicyQuantities, reqMem : PolicyQuantities, limMem : PolicyQuantities]

\* vm.Spec.NetworkInterfaces, by network type
NifListsFn == UNION {[1..n -> NetworkTypes] : n \in 0..MaxNifs}
\* the network devices of the remote VM, by key
DeviceListsFn == {[i \in 1..m |-> 4000 + (i - 1)] : m \in 0..MaxDevs}
\* the Session, with and without a default network
SessionsFn == {[id |-> 1, contentlib |-> "", network |-> n] : n \in {"", "net1"}}

\* vm.Spec.Network: nil, or a spec of up to MaxIfaces interfaces whose network
\* reference is nil, empty or complete
MaxIfaces == 2
InterfaceNetworks ==
  {{}, {PartialObjectRef("", "", "")}, {PartialObjectRef("Network", "v1", "net2")},
   {PartialObjectRef("", "", "net2")}, {PartialObjectRef("Network", "v1", "")}}
InterfaceListsFn ==
  UNION {[1..n -> {InterfaceSpec("eth1", r) : r \in InterfaceNetworks}] : n \in 0..MaxIfaces}
NetworkSpecsFn ==
  {{}} \cup {{NetworkSpec(d, l)} : d \in BOOLEAN, l \in InterfaceListsFn}

\* maps of extra configuration: up to MaxKeys keys, the values those of the
\* VM or of the global configuration
MaxKeys == 3
ConfigKeys == {<<"guestinfo", i>> : i \in 1..MaxKeys}
MapsOver(values) ==
  UNION {[ks -> values] : ks \in SUBSET ConfigKeys}
EntriesOf(f) == {<<k, f[k]>> : k \in DOMAIN f}

\* a VM of these interfaces and this metadata transport
VMWith(vifs, tr) ==
  [ns |-> "ns1", name |-> "vm1", image |-> "", nifs |-> vifs, transport |-> tr, power |-> ""]

\* what an application of a function leaves alone
others ==
  <<config, sessions, attempts, outcome, flight, pc, ckey, cflight, cres, inventory, last, wait,
    fake, stored, crypto>>

\* one application at a time: the function is applied, its result recorded
ApplyMemoryQuantityToMb ==
  /\ fn = NoFn
  /\ \E q \in QuantitiesFn :
       fn' = [name |-> "memoryQuantityToMb", q |-> q, out |-> memoryQuantityToMb(q)]
  /\ UNCHANGED others

ApplyCpuQuantityToMhz ==
  /\ fn = NoFn
  /\ \E q \in QuantitiesFn :
       fn' = [name |-> "cpuQuantityToMhz", q |-> q, out |-> cpuQuantityToMhz(q)]
  /\ UNCHANGED others

ApplyConfigSpecFromClassSpec ==
  /\ fn = NoFn
  /\ \E s \in SessionsFn, c \in ClassesFn, tr \in Transports :
       \E r \in {configSpecFromClassSpec(s, "vm1", VMWith(<<>>, tr), c, <<>>)} :
         fn' = [name |-> "configSpecFromClassSpec", class |-> c, transport |-> tr,
                err |-> r.err, out |-> r.val]
  /\ UNCHANGED others

ApplyDeviceSpecsFromVM ==
  /\ fn = NoFn
  /\ \E vifs \in NifListsFn, f \in {"none", "CreateVnic"} :
       \E r \in {deviceSpecsFromVM(VMWith(vifs, ""), f)} :
         fn' = [name |-> "deviceSpecsFromVM", nifs |-> vifs, f |-> f, err |-> r.err,
                out |-> r.val]
  /\ UNCHANGED others

ApplyDeviceChangeSpecs ==
  /\ fn = NoFn
  /\ \E s \in SessionsFn, vifs \in NifListsFn, netDevices \in DeviceListsFn,
        f \in {"none"} \cup DevicePoints :
       \E r \in {deviceChangeSpecs(s, VMWith(vifs, ""), netDevices, f)} :
         fn' = [name |-> "deviceChangeSpecs", network |-> s.network, nifs |-> vifs,
                devs |-> netDevices, f |-> f, err |-> r.err, out |-> r.val]
  /\ UNCHANGED others

\* getCloneSpec for a source VM with these network devices
ApplyGetCloneSpec ==
  /\ fn = NoFn
  /\ \E s \in SessionsFn, vifs \in {<<>>, <<NsxtNetworkType>>}, tr \in Transports,
        power \in PowerStates, profileID \in ProfileIDs, netDevices \in DeviceListsFn,
        f \in {"none", "GetVirtualDisks", "GetNetworkDevices", "computeVMPlacement"} :
       \E r \in {getCloneSpec(s, "vm1",
                               [ns |-> "ns1", name |-> "vm1", image |-> "img1", nifs |-> vifs,
                                transport |-> tr, power |-> power],
                               NoClass, profileID, netDevices, f)} :
         fn' = [name |-> "getCloneSpec", power |-> power, transport |-> tr, f |-> f,
                err |-> r.err, out |-> r.val]
  /\ UNCHANGED others

\* getCustomizationSpecs and what CreateVirtualMachine does with its result
ApplyGetCustomizationSpecs ==
  /\ fn = NoFn
  /\ \E vifs \in NifListsFn, f \in {"none", "waitForVnetIFStatus", "Customize"} :
       \E ips \in [1..Len(vifs) -> 0..MaxIPs] :
         \E cu \in {getCustomizationSpecs(VMWith(vifs, ""), ips, f)} :
           \E r \in {Then(cu, Customize(cu, f))} :
             fn' = [name |-> "getCustomizationSpecs", nifs |-> vifs, ips |-> ips, f |-> f,
                    err |-> cu.err, out |-> cu.val, calls |-> r.calls]
  /\ UNCHANGED others

\* SetNextRestartTime for the incoming and the stored value of the field
ApplySetNextRestartTime ==
  /\ fn = NoFn
  /\ \E newTime \in NextRestartTimes, oldTime \in {<<>>, EarlierTimestamp},
        oldPower \in {VirtualMachinePowerStateOn, VirtualMachinePowerStateOff} :
       \E r \in {SetNextRestartTime(newTime, oldTime, oldPower)} :
         fn' = [name |-> "SetNextRestartTime", newTime |-> newTime, oldTime |-> oldTime,
                oldPower |-> oldPower, ok |-> r.ok, err |-> r.err, value |-> r.value]
  /\ UNCHANGED others

\* AddDefaultNetworkInterface for a VM with or without the annotation and a
\* network spec
ApplyAddDefaultNetworkInterface ==
  /\ fn = NoFn
  /\ \E annotated \in BOOLEAN, network \in NetworkSpecsFn,
        providerType \in NetworkProviderTypes, configured \in {"", "net1"} :
       \E r \in {AddDefaultNetworkInterface(annotated, network, providerType, configured)} :
         fn' = [name |-> "AddDefaultNetworkInterface", annotated |-> annotated,
                network |-> network, providerType |-> providerType,
                configured |-> configured, updated |-> r.updated, out |-> r.network,
                panic |-> r.panic]
  /\ UNCHANGED others

\* NewSessionAndConfigure for a configuration and a point of failure
ApplyNewSessionAndConfigure ==
  /\ fn = NoFn
  /\ \E cfg \in Configs, f \in SessionFailPoints :
       \E r \in {NewSessionAndConfigure(1, cfg, f)} :
         fn' = [name |-> "NewSessionAndConfigure", contentSource |-> cfg.contentSource,
                f |-> f, err |-> r.err, id |-> r.ses.id, client |-> r.client]
  /\ UNCHANGED others

\* GetVirtualMachineImage with a cached Session, for what the library and the
\* inventory hold under the name
ApplyGetVirtualMachineImage ==
  /\ fn = NoFn
  /\ \E cl \in {"", "cl1"}, lib \in Libraries, n \in 0..MaxDup, f \in ImageFailPoints :
       \E r \in {GetVirtualMachineImage(
                    [k \in Keys |-> [id |-> 1, contentlib |-> cl, network |-> ""]], 2,
                    [contentSource |-> cl, network |-> ""], [name \in Names |-> n],
                    "ns1", "img1", lib, f)} :
         fn' = [name |-> "GetVirtualMachineImage", contentlib |-> cl, items |-> lib.items,
                type |-> lib.type, inventory |-> n, f |-> f, err |-> r.err, val |-> r.val,
                calls |-> r.calls]
  /\ UNCHANGED others

\* GetExtraConfig for the entries of the VM and the global ones (nil or not)
ApplyGetExtraConfig ==
  /\ fn = NoFn
  /\ \E v \in MapsOver({"vm"}), g \in MapsOver({"global", "vm"}), isNil \in BOOLEAN :
       \E out \in GetExtraConfig(EntriesOf(v), IF isNil THEN {} ELSE {EntriesOf(g)}) :
         fn' = [name |-> "GetExtraConfig", vmSpecMeta |-> EntriesOf(v),
                globalMeta |-> IF isNil THEN {} ELSE {EntriesOf(g)}, out |-> out]
  /\ UNCHANGED others

\* the caller takes the result of the function
Returned ==
  /\ fn # NoFn
  /\ fn' = NoFn
  /\ UNCHANGED others

NextFn ==
  \/ ApplyMemoryQuantityToMb
  \/ ApplyCpuQuantityToMhz
  \/ ApplyConfigSpecFromClassSpec
  \/ ApplyDeviceSpecsFromVM
  \/ ApplyDeviceChangeSpecs
  \/ ApplyGetCloneSpec
  \/ ApplyGetCustomizationSpecs
  \/ ApplySetNextRestartTime
  \/ ApplyAddDefaultNetworkInterface
  \/ ApplyNewSessionAndConfigure
  \/ ApplyGetVirtualMachineImage
  \/ ApplyGetExtraConfig
  \/ Returned

SpecFn == Init /\ [][NextFn]_vars

(***************************************************************************)
(* The customization of CreateVirtualMachine step by step: it waits for    *)
(* the status of each NSX-T interface in turn, while the context of the    *)
(* call may become done (SpecWait)                                         *)
(***************************************************************************)
\* how long the network provider waits for one status before it gives up
WaitTimeout == 2

\* the first NSX-T interface after the i-th, 0 when there is none
NextNsx(nifs, i) ==
  LET later == {j \in (i + 1)..Len(nifs) : nifs[j] = NsxtNetworkType}
  IN IF later = {} THEN 0 ELSE CHOOSE j \in later : \A k \in later : j <= k

\* what the wait leaves alone
othersWait ==
  <<config, sessions, attempts, outcome, flight, pc, ckey, cflight, cres, inventory, last, fn,
    fake, stored, crypto>>

\* getCustomizationSpecs returned, with this error
CustomizationDone(err) == [wait EXCEPT !.pc = "returned", !.err = err]
\* getCustomizationSpecs calls waitForVnetIFStatus for the j-th interface
WaitFor(w, j) == [w EXCEPT !.pc = "waiting", !.i = j, !.elapsed = 0]

\* CreateVirtualMachine has its VM and calls getCustomizationSpecs, which
\* takes namespace, name and spec of the VM, and not the context
CustomizationStart ==
  /\ wait.pc = "idle"
  /\ \E vifs \in NifListsFn :
       wait' = IF NextNsx(vifs, 0) = 0
                 THEN [NoWait EXCEPT !.pc = "returned", !.nifs = vifs]
                 ELSE WaitFor([NoWait EXCEPT !.nifs = vifs], NextNsx(vifs, 0))
  /\ UNCHANGED othersWait

\* the context of the call is cancelled, or its deadline passes
ContextDone ==
  /\ wait.pc = "waiting" /\ ~wait.cancelled
  /\ wait' = [wait EXCEPT !.cancelled = TRUE, !.whenCancelled = wait.i]
  /\ UNCHANGED othersWait

\* time passes in waitForVnetIFStatus
Tick ==
  /\ wait.pc = "waiting" /\ wait.elapsed < WaitTimeout
  /\ wait' = [wait EXCEPT !.elapsed = @ + 1]
  /\ UNCHANGED othersWait

\* the status of the interface appears: waitForVnetIFStatus returns it, and
\* getCustomizationSpecs goes on to the next NSX-T interface or returns
StatusAppears ==
  /\ wait.pc = "waiting"
  /\ wait' = IF NextNsx(wait.nifs, wait.i) = 0
               THEN CustomizationDone(NoErr)
               ELSE WaitFor(wait, NextNsx(wait.nifs, wait.i))
  /\ UNCHANGED othersWait

\* waitForVnetIFStatus gives up: getCustomizationSpecs returns its error
WaitTimesOut ==
  /\ wait.pc = "waiting" /\ wait.elapsed = WaitTimeout
  /\ wait' = CustomizationDone(Err("timeout"))
  /\ UNCHANGED othersWait

\* CreateVirtualMachine goes on, or returns the error
CustomizationReturn ==
  /\ wait.pc = "returned"
  /\ wait' = NoWait
  /\ UNCHANGED othersWait

NextWait ==
  \/ CustomizationStart
  \/ ContextDone
  \/ Tick
  \/ StatusAppears
  \/ WaitTimesOut
  \/ CustomizationReturn

SpecWait == Init /\ [][NextWait]_vars

(***************************************************************************)
(* The admission of a VirtualMachine through the mutation webhook          *)
(* (SpecHook): the API server stores what an admitted request leaves.      *)
(***************************************************************************)
\* values of spec.nextRestartTime a request may carry
RequestedTimes ==
  {<<>>, <<"n", "o", "w">>, <<"N", "O", "W">>, <<"n", "O", "w">>, <<"n", "o">>, <<"x">>,
   EarlierTimestamp, Timestamp}
\* a create is admitted without a request for a restart
CreatedTimes == RequestedTimes \ {<<"n", "o", "w">>}

othersHook ==
  <<config, sessions, attempts, outcome, flight, pc, ckey, cflight, cres, inventory, last, fn,
    wait, fake, crypto>>

HookCreate ==
  /\ ~stored.exists
  /\ \E newTime \in CreatedTimes, newPower \in {"", VirtualMachinePowerStateOn,
                                                 VirtualMachinePowerStateOff},
        resolves \in BOOLEAN :
       \E r \in {Mutate("CREATE", newTime, newPower, <<>>, "", resolves)} :
         stored' = [exists |-> r.response # "Denied",
                    nextRestartTime |-> IF r.response # "Denied" THEN r.nextRestartTime
                                        ELSE <<>>,
                    powerState |-> IF r.response # "Denied" THEN r.powerState ELSE "",
                    response |-> r.response, op |-> "CREATE", requested |-> newTime,
                    oldTime |-> <<>>, oldPower |-> ""]
  /\ UNCHANGED othersHook

HookUpdate ==
  /\ stored.exists
  /\ \E newTime \in RequestedTimes,
        newPower \in {VirtualMachinePowerStateOn, VirtualMachinePowerStateOff} :
       \E r \in {Mutate("UPDATE", newTime, newPower, stored.nextRestartTime,
                         stored.powerState, TRUE)} :
         stored' = [exists |-> TRUE,
                    nextRestartTime |-> IF r.response # "Denied" THEN r.nextRestartTime
                                        ELSE stored.nextRestartTime,
                    powerState |-> IF r.response # "Denied" THEN r.powerState
                                   ELSE stored.powerState,
                    response |-> r.response, op |-> "UPDATE", requested |-> newTime,
                    oldTime |-> stored.nextRestartTime, oldPower |-> stored.powerState]
  /\ UNCHANGED othersHook

HookDelete ==
  /\ stored.exists
  /\ \E r \in {Mutate("DELETE", stored.nextRestartTime, stored.powerState,
                       stored.nextRestartTime, stored.powerState, TRUE)} :
       stored' = [exists |-> FALSE, nextRestartTime |-> <<>>, powerState |-> "",
                  response |-> r.response, op |-> "DELETE", requested |-> <<>>,
                  oldTime |-> stored.nextRestartTime, oldPower |-> stored.powerState]
  /\ UNCHANGED othersHook

NextHook ==
  \/ HookCreate
  \/ HookUpdate
  \/ HookDelete

SpecHook == Init /\ [][NextHook]_vars

(***************************************************************************)
(* The crypto reconciler called after each reconfigure of one VM           *)
(* (SpecCrypto): the VM keeps its status from one call to the next.        *)
(***************************************************************************)
\* the crypto key of the remote VM: none, a provider and a key, a provider alone
CryptoKeys ==
  {[provider |-> "", id |-> ""], [provider |-> "p1", id |-> "k1"], [provider |-> "p1", id |-> ""]}
\* state.Operation: the two crypto updates and another operation
CryptoOperations == {"encrypting", "recrypting", "decrypting"}
\* faults a reconfigure may fail with
Faults ==
  { Fault("GenericVmConfigFault", "", <<"msg.vigor.enc.keyNotFound">>, ""),
    Fault("GenericVmConfigFault", "", <<"msg.other">>, ""),
    Fault("SystemError", "Key locator error", <<>>, ""),
    Fault("InvalidDeviceOperation", "", <<"msg.other">>, ""),
    Fault("InvalidPowerState", "", <<>>, "poweredOn"),
    Fault("InvalidPowerState", "", <<>>, "poweredOff"),
    Fault("NotFound", "", <<"msg.vigor.enc.keyNotFound">>, "") }
\* nil, an error of one fault, an error that wraps a second fault
ResultErrs ==
  {<<>>} \cup {<<f>> : f \in Faults}
    \cup {<<Fault("NotFound", "", <<>>, ""),
            Fault("InvalidVmConfig", "", <<"msg.hostd.configSpec.enc.snapshots", "msg.other">>, "")>>}

othersCrypto ==
  <<config, sessions, attempts, outcome, flight, pc, ckey, cflight, cres, inventory, last, fn,
    wait, fake, stored>>

\* OnResult with a context, a VM and a remote configuration
ReconcileOnResult ==
  /\ \E key \in CryptoKeys, isEncStorClass \in BOOLEAN, vtpm \in BOOLEAN,
        operation \in CryptoOperations, resultErr \in ResultErrs :
       \E r \in {OnResult(crypto.status, crypto.synced, key, isEncStorClass, vtpm, operation,
                          resultErr)} :
         crypto' = [status |-> r.status, synced |-> r.synced,
                    call |-> [op |-> "OnResult", panic |-> FALSE, key |-> key,
                              isEncStorClass |-> isEncStorClass, vtpm |-> vtpm,
                              operation |-> operation, resultErr |-> resultErr,
                              msgs |-> r.msgs, marked |-> r.marked, err |-> r.err,
                              synced0 |-> crypto.synced]]
  /\ UNCHANGED othersCrypto

\* OnResult with a nil context, a nil moVM.Config or a nil VM: it panics
\* before it reads or writes anything
ReconcileOnResultNil ==
  /\ crypto.call.op # "OnResultNil"
  /\ crypto' = [status |-> crypto.status, synced |-> crypto.synced,
                call |-> [op |-> "OnResultNil", panic |-> TRUE]]
  /\ UNCHANGED othersCrypto

NextCrypto ==
  \/ ReconcileOnResult
  \/ ReconcileOnResultNil

SpecCrypto == Init /\ [][NextCrypto]_vars

(***************************************************************************)
(* The fake VMProvider (package fake): every method runs under the mutex   *)
(* of the provider, and calls its override function when one is set        *)
(* (SpecFake)                                                              *)
(***************************************************************************)
\* what the fake provider leaves alone
othersFake ==
  <<config, sessions, attempts, outcome, flight, pc, ckey, cflight, cres, inventory, last, fn,
    wait, stored, crypto>>

deleteFromVMMapKeeps(vmMap, key) == vmMap

addToVMMap(vmMap, key) == vmMap \cup {key}
deleteFromVMMap(vmMap, key) == vmMap \ {key}

\* a method was called for this VM: the provider after the call
FakeCalled(method, key, vmMap, ok) ==
  [fake EXCEPT !.vmMap = vmMap,
               !.call = [method |-> method, key |-> key, ok |-> ok,
                         overridden |-> method \in fake.funcs],
               !.recent = IF method = "DoesVirtualMachineExist" THEN @
                          ELSE [@ EXCEPT ![key] = method]]

\* a test sets the override function of a method
FakeSetFn ==
  /\ \E method \in FakeMethods \ fake.funcs :
       fake' = [fake EXCEPT !.funcs = @ \cup {method}, !.plain = FALSE,
                            !.call = [method |-> "SetFn"]]
  /\ UNCHANGED othersFake

\* Reset: no override function, empty maps
FakeReset ==
  /\ fake' = [NewVMProvider EXCEPT !.call = [method |-> "Reset"]]
  /\ UNCHANGED othersFake

\* DoesVirtualMachineExist: the override function's answer, or whether the
\* key is in vmMap
FakeDoesVirtualMachineExist ==
  /\ \E key \in FakeKeys :
       \E ok \in IF "DoesVirtualMachineExist" \in fake.funcs THEN BOOLEAN
                 ELSE {key \in fake.vmMap} :
         fake' = FakeCalled("DoesVirtualMachineExist", key, fake.vmMap, ok)
  /\ UNCHANGED othersFake

FakeCreateVirtualMachine ==
  /\ \E key \in FakeKeys :
       fake' = FakeCalled("CreateVirtualMachine", key,
                          IF "CreateVirtualMachine" \in fake.funcs THEN fake.vmMap
                          ELSE addToVMMap(fake.vmMap, key), TRUE)
  /\ UNCHANGED othersFake

FakeUpdateVirtualMachine ==
  /\ \E key \in FakeKeys :
       fake' = FakeCalled("UpdateVirtualMachine", key,
                          IF "UpdateVirtualMachine" \in fake.funcs THEN fake.vmMap
                          ELSE addToVMMap(fake.vmMap, key), TRUE)
  /\ UNCHANGED othersFake

FakeDeleteVirtualMachine ==
  /\ \E key \in FakeKeys :
       fake' = FakeCalled("DeleteVirtualMachine", key,
                          IF "DeleteVirtualMachine" \in fake.funcs THEN fake.vmMap
                          ELSE deleteFromVMMap(fake.vmMap, key), TRUE)
  /\ UNCHANGED othersFake

NextFake ==
  \/ FakeSetFn
  \/ FakeReset
  \/ FakeDoesVirtualMachineExist
  \/ FakeCreateVirtualMachine
  \/ FakeUpdateVirtualMachine
  \/ FakeDeleteVirtualMachine

SpecFake == Init /\ [][NextFake]_vars

(***************************************************************************)
(* Properties of the session manager (SpecSM)                              *)
(***************************************************************************)
\* C1 - single-flight: among the concurrent callers of GetSession for one
\* key that has no cached Session at most one runs a construction; a caller
\* that waits, waits for the construction in flight for its key, whose
\* builder is still at work; and all the callers served by one construction
\* receive the same Session or the same error.
C1_SingleFlight ==
  /\ \A c, d \in Callers :
       (c # d /\ pc[c] = "build" /\ pc[d] = "build") => ckey[c] # ckey[d]
  /\ \A d \in Callers :
       pc[d] = "wait" =>
         /\ flight[ckey[d]] = cflight[d]
         /\ \E c \in Callers : pc[c] = "build" /\ ckey[c] = ckey[d] /\ cflight[c] = cflight[d]
  /\ \A c, d \in Callers :
       (pc[c] = "done" /\ pc[d] = "done" /\ cflight[c] # 0 /\ cflight[c] = cflight[d])
         => cres[c] = cres[d]

\* two callers were served by the same construction
C1_Witness ==
  \E c, d \in Callers :
    /\ c # d
    /\ pc[c] = "done" /\ pc[d] = "done"
    /\ cflight[c] # 0 /\ cflight[c] = cflight[d]
    /\ ckey[c] = ckey[d]

\* the cache holds only Sessions of constructions that succeeded, and a
\* caller served by a failed construction holds its error while the cache
\* holds nothing of that construction
C2_FailureNotCached ==
  /\ \A k \in Keys : sessions[k] # NoSession => outcome[sessions[k].id] = "ok"
  /\ \A c \in Callers :
       (pc[c] = "done" /\ cflight[c] # 0 /\ outcome[cflight[c]] = "failed") =>
         /\ cres[c].err # NoErr
         /\ cres[c].ses = NoSession
         /\ \A k \in Keys : sessions[k].id # cflight[c]

\* a call for a key without a cached Session and without a construction in
\* flight starts a new construction; a call for a cached key returns the
\* cached instance; and a cached Session changes only by being invalidated
C2_RetryAndKeep ==
  /\ \A c \in Callers :
       (pc[c] = "idle" /\ pc'[c] = "build") =>
         /\ sessions[ckey'[c]] = NoSession
         /\ attempts' = attempts + 1
         /\ cflight'[c] = attempts'
  /\ \A c \in Callers :
       (pc[c] = "idle" /\ pc'[c] = "done") =>
         /\ sessions[ckey'[c]] # NoSession
         /\ cres'[c] = [ses |-> sessions[ckey'[c]], err |-> NoErr]
         /\ sessions' = sessions
  /\ \A k \in Keys :
       (sessions[k] # NoSession /\ sessions'[k] # sessions[k]) =>
         /\ sessions'[k] = NoSession
         /\ pc' = pc /\ attempts' = attempts

\* C2 - a failed Session construction is returned to the caller and never
\* cached, so that the next GetSession of the key constructs again from
\* scratch; a constructed Session stays cached, the same instance returned
\* to every caller, until it is invalidated.
C2_FailedNotCachedSuccessKept == []C2_FailureNotCached /\ [][C2_RetryAndKeep]_vars

\* a caller still holds the error of a failed construction for a key while
\* another caller runs a later construction for the same key
C2_Witness ==
  \E c, d \in Callers :
    /\ pc[c] = "done" /\ cres[c].err # NoErr
    /\ pc[d] = "build" /\ ckey[d] = ckey[c]
    /\ cflight[d] > cflight[c]
    /\ sessions[ckey[c]] = NoSession

(***************************************************************************)
(* Properties of the provider (Spec)                                       *)
(***************************************************************************)
\* the provider call in progress got its Session
Acquired == last.op # "none" /\ last.sid # 0

ClonePathCalls == {"Session.CloneVirtualMachine", "Clone", "DeployLibraryItem"}
ScratchPathCalls == {"Session.CreateVirtualMachine", "Create"}
LibraryCalls ==
  {"rest.Login", "rest.Logout", "FindLibraryItems", "GetLibraryItem", "FetchOvfProperties",
   "DeployLibraryItem", "ObjectReference"}
SourceVMCalls == {"Finder.VirtualMachine", "Clone", "GetVirtualDisks", "computeVMPlacement"}

\* C3 - tenant isolation: every provider operation invoked for a namespace
\* asks the session manager for the Session keyed by that namespace and
\* uses that Session, never the one of another key.
C3_TenantIsolation ==
  last.op # "none" =>
    /\ last.key = last.vm.ns
    /\ Acquired => sessions[last.vm.ns].id = last.sid

\* C4 - CreateVirtualMachine takes exactly one creation path, chosen by the
\* image reference alone: an empty ImageName calls create-from-scratch and
\* nothing of the clone/deploy path, a non-empty one calls clone/deploy and
\* nothing of create-from-scratch.
C4_OnePathByImage ==
  (last.op = "Create" /\ Acquired) =>
    /\ Len(last.calls) >= 1
    /\ IF last.vm.image = ""
         THEN /\ last.calls[1] = "Session.CreateVirtualMachine"
              /\ Range(last.calls) \cap ClonePathCalls = {}
         ELSE /\ last.calls[1] = "Session.CloneVirtualMachine"
              /\ Range(last.calls) \cap ScratchPathCalls = {}

\* a VM without image was created from scratch by a Session that has a
\* content library
C4_Witness ==
  /\ last.op = "Create" /\ last.vm.image = "" /\ last.cl # ""
  /\ "Create" \in Range(last.calls)
  /\ inventory[last.vm.name] = last.pre + 1

\* C5 - CloneVirtualMachine runs exactly one of deploy-from-catalog and
\* clone-from-VM: a Session with a content library only deploys the catalog
\* item and never looks up or clones a source VM, also when the catalog
\* lookup or the deploy fails; a Session without one only looks up the
\* source VM by name and clones it.
C5_DeployOrClone ==
  (last.op = "Create" /\ Acquired /\ last.vm.image # "") =>
    /\ Len(last.calls) >= 2
    /\ IF last.cl # ""
         THEN /\ last.calls[2] = "rest.Login"
              /\ Range(last.calls) \cap SourceVMCalls = {}
              /\ last.err = NoErr => "DeployLibraryItem" \in Range(last.calls)
         ELSE /\ last.calls[2] = "Finder.VirtualMachine"
              /\ Range(last.calls) \cap LibraryCalls = {}
              /\ last.err = NoErr => "Clone" \in Range(last.calls)

\* the deploy of the catalog item failed and nothing was cloned
C5_Witness ==
  /\ last.op = "Create" /\ last.vm.image # "" /\ last.cl # ""
  /\ last.f = "DeployLibraryItem" /\ "DeployLibraryItem" \in Range(last.calls)
  /\ last.err # NoErr
  /\ inventory[last.vm.name] = last.pre

\* C6 - in UpdateVirtualMachine the power state is set only after the
\* reconfigure succeeded: a failed reconfigure is returned and SetPowerState
\* is not called in that update.
C6_PowerAfterReconfigure ==
  last.op = "Update" =>
    /\ \A i \in 1..Len(last.calls) :
         last.calls[i] \in PowerCalls =>
           /\ last.f # "Reconfigure"
           /\ \E j \in 1..(i - 1) : last.calls[j] = "Reconfigure"
    /\ (last.f = "Reconfigure" /\ "Reconfigure" \in Range(last.calls)) =>
         /\ Range(last.calls) \cap PowerCalls = {}
         /\ last.calls[Len(last.calls)] = "Reconfigure"
         /\ last.err = BackendFault

\* an update whose reconfigure failed
C6_Witness ==
  /\ last.op = "Update" /\ last.f = "Reconfigure"
  /\ "Reconfigure" \in Range(last.calls)
  /\ last.err # NoErr

C8_CreateIdempotent ==
  (last.op = "Create" /\ last.pre >= 1) =>
    /\ inventory[last.vm.name] = last.pre
    /\ last.err # NoErr

\* C9 - error translation: a lookup error of class NotFound or of class
\* MultipleFound leaves the provider as a structured domain error carrying
\* the resource kind and the resource identifier; other errors pass through.
C9_LookupErrorsTranslated ==
  last.op \in {"Update", "Delete", "GetImage"} =>
    IF IsNotFoundClass(last.raw) \/ IsMultipleFoundClass(last.raw)
      THEN IsDomainError(last.err)
      ELSE last.err = last.raw

\* C10 - DoesVirtualMachineExist answers (true, nil) when the lookup finds
\* the VM, (false, nil) when the lookup fails with NotFound, and (false, err)
\* for every other error, MultipleFound and a failed session acquisition
\* included; it never answers true when the lookup failed.
C10_ExistsAnswers ==
  last.op = "Exists" =>
    /\ last.raw = NoErr => (last.val = "true" /\ last.err = NoErr /\ last.pre = 1)
    /\ IsNotFoundClass(last.raw) => (last.val = "false" /\ last.err = NoErr)
    /\ (last.raw # NoErr /\ ~IsNotFoundClass(last.raw)) =>
         (last.val = "false" /\ last.err = last.raw)
    /\ last.val = "true" => (last.raw = NoErr /\ Acquired)
    /\ ~Acquired => (last.val = "false" /\ last.err # NoErr /\ last.calls = <<>>)

\* the lookup found more than one VM of the name
C10_Witness ==
  /\ last.op = "Exists" /\ last.pre > 1
  /\ IsMultipleFoundClass(last.raw)
  /\ last.val = "false" /\ last.err # NoErr

\* backend calls that change the state of the backend
StateChangingCalls == {"Create", "Clone", "DeployLibraryItem", "Reconfigure"} \cup PowerCalls

\* the spec has an interface of a network type no provider exists for
HasUnsupportedNif(vm) ==
  \E i \in 1..Len(vm.nifs) : getNetworkProviderByType(vm.nifs[i]) # NoErr

\* the spec names a metadata transport other than ExtraConfig
HasUnsupportedTransport(vm) == vm.transport \notin {"", "ExtraConfig"}

\* C11 - a spec with an interface of an unsupported network type is
\* rejected before any state-changing backend call: create (from scratch,
\* by clone, by catalog deploy) and update return an error and have issued
\* no create, clone, deploy, reconfigure or power call.
C11_UnsupportedNifRejectedFirst ==
  (last.op \in {"Create", "Update"} /\ HasUnsupportedNif(last.vm)) =>
    /\ last.err # NoErr
    /\ Range(last.calls) \cap StateChangingCalls = {}
    /\ inventory[last.vm.name] = last.pre

\* C12 - a spec whose metadata names a transport other than ExtraConfig is
\* rejected with an error on every create path and on update, and no
\* state-changing backend call is made for it.
C12_UnsupportedTransportRejected ==
  (last.op \in {"Create", "Update"} /\ HasUnsupportedTransport(last.vm)) =>
    /\ last.err # NoErr
    /\ Range(last.calls) \cap StateChangingCalls = {}
    /\ inventory[last.vm.name] = last.pre

\* the calls the callbacks of WithRestClient issue over the REST connection
RestCallbackCalls == {"FindLibraryItems", "GetLibraryItem", "GetLibraryItems", "DeployLibraryItem"}

\* the call at i of q is inside a login..logout scope: a login before it, a
\* logout after it, and only callback calls between the two
InRestScope(q, i) ==
  \E a \in 1..(i - 1), b \in (i + 1)..Len(q) :
    /\ q[a] = "rest.Login" /\ q[b] = "rest.Logout"
    /\ \A k \in (a + 1)..(b - 1) : q[k] \in RestCallbackCalls

\* C13 - scoped catalog connection: a callback call is issued only after a
\* successful login; a successful login is followed by its callback calls
\* and then exactly one logout, also when the callback fails; a failed
\* login ends the operation with the login error, no callback call and no
\* logout issued.
C13_ScopedRestClient ==
  last.op # "none" =>
    LET q == last.calls
    IN /\ \A i \in 1..Len(q) :
            q[i] \in RestCallbackCalls => InRestScope(q, i)
       /\ \A a \in 1..Len(q) :
            q[a] = "rest.Login" =>
              IF last.f = "rest.Login"
                THEN a = Len(q) /\ last.raw = BackendFault /\ last.err = BackendFault
                ELSE \E b \in (a + 1)..Len(q) :
                       /\ q[b] = "rest.Logout"
                       /\ \A k \in (a + 1)..(b - 1) : q[k] \in RestCallbackCalls
       /\ \A b \in 1..Len(q) :
            q[b] = "rest.Logout" =>
              \E a \in 1..(b - 1) :
                /\ q[a] = "rest.Login"
                /\ \A k \in (a + 1)..(b - 1) : q[k] \in RestCallbackCalls
       /\ last.f = "rest.Login" => Range(q) \cap (RestCallbackCalls \cup {"rest.Logout"}) = {}

\* the callback of a scope failed and the logout followed it
C13_Witness ==
  /\ last.op = "Create" /\ last.f = "DeployLibraryItem" /\ last.err # NoErr
  /\ \E i \in 1..(Len(last.calls) - 1) :
       last.calls[i] = "DeployLibraryItem" /\ last.calls[i + 1] = "rest.Logout"

\* C14 - the status merge never changes the lifecycle phase: after a
\* successful create or update vm.Status.Phase is the phase the caller
\* passed in, and the observed fields of vm.Status are those read from the
\* backend.
C14_PhaseKept ==
  (last.op \in {"Create", "Update"} /\ last.err = NoErr) =>
    /\ last.backend \in BackendStatuses
    /\ last.status.phase = last.status0.phase
    /\ last.status.powerState = last.backend.powerState
    /\ last.status.host = last.backend.host

\* a create succeeded for a VM whose phase and observed fields all differ
\* from what the backend reports
C14_Witness ==
  /\ last.op = "Create" /\ last.err = NoErr
  /\ last.status0.phase # last.backend.phase
  /\ last.status0.powerState # last.backend.powerState
  /\ last.status0.host # last.backend.host
  /\ last.status # last.status0 /\ last.status # last.backend


(***************************************************************************)
(* Properties of the functions of the Session (SpecFn)                     *)
(***************************************************************************)
\* the change of one device, as deviceChangeSpecs lists it
Change(operation, key, backing) == [operation |-> operation, key |-> key, backing |-> backing]
Operations(changes) == [i \in 1..Len(changes) |-> changes[i].operation]

\* C15 - when the VM spec desires no network interface, deviceChangeSpecs
\* returns, on a Session with a default network, exactly one "edit" per
\* network device of the remote VM, in order, each with the default network
\* as its backing, and no "add" or "remove"; on a Session without a default
\* network it returns the empty list
C15_NoInterfaceDesired ==
  fn.name = "deviceChangeSpecs" /\ fn.err = NoErr /\ fn.nifs = <<>> =>
    IF fn.network # ""
      THEN fn.out = [i \in 1..Len(fn.devs) |-> Change("edit", fn.devs[i], fn.network)]
      ELSE fn.out = <<>>
C15_Witness ==
  /\ fn.name = "deviceChangeSpecs" /\ fn.err = NoErr /\ fn.nifs = <<>>
  /\ fn.network # ""
  /\ Len(fn.devs) = MaxDevs
  /\ Operations(fn.out) = [i \in 1..MaxDevs |-> "edit"]


\* C16 - when the VM spec desires n >= 1 network interfaces and the remote VM
\* has m network devices, deviceChangeSpecs returns m "remove" changes, one
\* per device in order, followed by n "add" changes, one per desired
\* interface in the order of the spec, and no "edit", with or without a
\* default network on the Session
C16_InterfacesDesired ==
  fn.name = "deviceChangeSpecs" /\ fn.err = NoErr /\ Len(fn.nifs) >= 1 =>
    LET m == Len(fn.devs)
        n == Len(fn.nifs)
    IN /\ Operations(fn.out) = [i \in 1..m |-> "remove"] \o [i \in 1..n |-> "add"]
       /\ \A i \in 1..m : fn.out[i].key = fn.devs[i]
       /\ \A i \in 1..n : fn.out[m + i].backing = fn.nifs[i]
C16_Witness ==
  /\ fn.name = "deviceChangeSpecs" /\ fn.err = NoErr
  /\ fn.nifs = <<NsxtNetworkType, "">>
  /\ fn.network # ""
  /\ Len(fn.devs) = MaxDevs
  /\ Operations(fn.out) = [i \in 1..MaxDevs |-> "remove"] \o <<"add", "add">>


\* C17 - in the list deviceSpecsFromVM returns, the key of the i-th added
\* device is the negative integer -100 - (i - 1), so no two added devices
\* have the same key; and in the list deviceChangeSpecs makes of it no added
\* device has the key of a device of the remote VM
C17_TemporaryKeys ==
  /\ fn.name = "deviceSpecsFromVM" /\ fn.err = NoErr =>
       /\ Len(fn.out) = Len(fn.nifs)
       /\ \A i \in 1..Len(fn.out) : fn.out[i].key = -100 - (i - 1) /\ fn.out[i].key < 0
       /\ \A i, j \in 1..Len(fn.out) : i # j => fn.out[i].key # fn.out[j].key
  /\ fn.name = "deviceChangeSpecs" /\ fn.err = NoErr =>
       \A i \in 1..Len(fn.out) :
         fn.out[i].operation = "add" => fn.out[i].key < 0 /\ fn.out[i].key \notin Range(fn.devs)
C17_Witness ==
  /\ fn.name = "deviceSpecsFromVM" /\ fn.err = NoErr
  /\ Len(fn.nifs) = MaxNifs
  /\ [i \in 1..MaxNifs |-> fn.out[i].key] = [i \in 1..MaxNifs |-> -99 - i]


\* m is the least integer with m * d >= q
IsCeilingOf(m, q, d) ==
  /\ Leq(q, MulBy(m, d))
  /\ m = Zero \/ Less(MulBy(Dec(m), d), q)

\* C18 - for every memory quantity Q >= 0, in bytes, memoryQuantityToMb(Q) is
\* the ceiling of Q / 2^20: the least integer m with m * 1048576 >= Q
C18_MemoryCeiling ==
  fn.name = "memoryQuantityToMb" => IsCeilingOf(fn.out, fn.q, 1024 * 1024)

\* C19 - for every CPU quantity Q >= 0, in Hz, cpuQuantityToMhz(Q) is the
\* ceiling of Q / 10^6: the least integer m with m * 1000000 >= Q
C19_CpuCeiling ==
  fn.name = "cpuQuantityToMhz" => IsCeilingOf(fn.out, fn.q, 1000 * 1000)


\* a pointer field of the descriptor is set exactly when the quantity is not
\* zero, and then to the quantity in units of d, rounded up
SetFromQuantity(field, quantity, d) ==
  /\ field # {} <=> quantity # Zero
  /\ \A v \in field : field = {v} /\ IsCeilingOf(v, quantity, d)

\* C20 - in the descriptor configSpecFromClassSpec builds, each of CPU
\* reservation, CPU limit, memory reservation and memory limit is set if and
\* only if the quantity of the class it comes from is not zero, and is then
\* that quantity converted to MHz or MB; for a zero quantity the field is
\* unset, not set to 0
C20_ReservationsAndLimits ==
  fn.name = "configSpecFromClassSpec" /\ fn.err = NoErr =>
    /\ SetFromQuantity(fn.out.cpuReservation, fn.class.reqCpu, 1000 * 1000)
    /\ SetFromQuantity(fn.out.cpuLimit, fn.class.limCpu, 1000 * 1000)
    /\ SetFromQuantity(fn.out.memReservation, fn.class.reqMem, 1024 * 1024)
    /\ SetFromQuantity(fn.out.memLimit, fn.class.limMem, 1024 * 1024)
C20_Witness ==
  /\ fn.name = "configSpecFromClassSpec" /\ fn.err = NoErr
  /\ fn.class.reqCpu = Quantity(1500000) /\ fn.out.cpuReservation = {Quantity(2)}
  /\ fn.class.limCpu = Zero /\ fn.out.cpuLimit = {}
  /\ fn.class.reqMem = Zero /\ fn.out.memReservation = {}
  /\ fn.class.limMem = Quantity(3000001) /\ fn.out.memLimit = {Quantity(3)}


(***************************************************************************)
(* Properties of the provider calls, continued (Spec)                      *)
(***************************************************************************)
\* where a call occurs among the calls of the provider call in progress
Positions(calls, set) == {i \in 1..Len(calls) : calls[i] \in set}
\* what CreateVirtualMachine does only with the VM handle of the Session
WithHandleCalls == {"waitForVnetIFStatus", "Customize", "GetStatus"}

\* C21 - create from scratch: the backend create comes first; a power
\* operation is issued only right after a create that succeeded, and then it
\* is a power-on whatever power state the spec asks for; a failed create is
\* followed by no power operation; the VM handle is returned (the provider
\* goes on with it, or returns no error) only when both steps succeeded
C21_CreateThenPowerOn ==
  (last.op = "Create" /\ Acquired /\ last.vm.image = "") =>
    LET creates == Positions(last.calls, {"Create"})
        powers == Positions(last.calls, PowerCalls)
    IN /\ Cardinality(creates) <= 1 /\ Cardinality(powers) <= 1
       /\ \A p \in powers :
            /\ last.calls[p] = SetPowerStateCall(PoweredOn)
            /\ p - 1 \in creates
            /\ last.f # "Create"
       /\ creates # {} /\ last.f # "Create" => powers # {}
       /\ last.err = NoErr \/ Range(last.calls) \cap WithHandleCalls # {} =>
            creates # {} /\ powers # {} /\ last.f \notin {"Create", "SetPowerState"}
\* a VM whose spec asks for poweredOff was created and powered on
C21_Witness ==
  /\ last.op = "Create" /\ last.vm.image = "" /\ last.vm.power = PoweredOff
  /\ last.err = NoErr
  /\ Positions(last.calls, {"Create"}) # {}
  /\ SetPowerStateCall(PoweredOn) \in Range(last.calls)


\* the calls among these that are in the set, in the order they were made
Only(calls, set) == [k \in 1..Cardinality(Positions(calls, set)) |->
                       calls[InOrder(Positions(calls, set))[k]]]

\* C24 - DeleteVirtualMachine runs the steps of the delete sequence in order
\* and stops at the first step that fails: no later step runs and the error
\* returned is that step's; without failing step all steps run; and no step
\* runs unless the Session was obtained and the lookup found the VM
C24_DeleteStopsAtFirstFailure ==
  last.op = "Delete" =>
    LET steps == Only(last.calls, Range(DeleteSteps))
    IN /\ steps = SubSeq(DeleteSteps, 1, Len(steps))
       /\ steps # <<>> =>
            /\ Acquired
            /\ last.calls = <<"Finder.VirtualMachine">> \o steps
            /\ last.pre = 1 /\ last.f \notin LookupPoints
            /\ IF last.f \in Range(DeleteSteps)
                 THEN steps[Len(steps)] = last.f /\ last.err = BackendFault
                 ELSE steps = DeleteSteps /\ last.err = NoErr
       /\ last.err = NoErr => steps = DeleteSteps
\* the second step failed: the third did not run
C24_Witness ==
  /\ last.op = "Delete" /\ last.f = DeleteSteps[2]
  /\ last.calls = <<"Finder.VirtualMachine", DeleteSteps[1], DeleteSteps[2]>>
  /\ last.err = BackendFault
  /\ inventory[last.vm.name] = last.pre

\* C30 - CreateVirtualMachine of the provider writes to the VM object of the
\* caller only when it succeeds: when it returns an error, vm.Status and the
\* annotations are as they were at the call; when it returns nil, vm.Status
\* holds the status read from the backend (under the phase of the caller)
\* and the annotations carry the name of the provider and the reference of
\* the backend VM
C30_CreateWritesOnSuccessOnly ==
  last.op = "Create" =>
    /\ last.err # NoErr =>
         last.status = last.status0 /\ last.annotations = last.annotations0
    /\ last.err = NoErr =>
         /\ last.status = [last.backend EXCEPT !.phase = last.status0.phase]
         /\ <<VmOperatorVmProviderKey, VsphereVmProviderName>> \in last.annotations
         /\ <<VmOperatorMoRefKey, last.referenceValue>> \in last.annotations
         /\ \A a \in last.annotations :
              /\ a[1] = VmOperatorVmProviderKey => a[2] = VsphereVmProviderName
              /\ a[1] = VmOperatorMoRefKey => a[2] = last.referenceValue
\* the backend VM was made and customized, the read of its status failed:
\* the VM object keeps its status and the annotations of an earlier create
C30_Witness ==
  /\ last.op = "Create" /\ last.f = "GetStatus" /\ last.err # NoErr
  /\ "GetStatus" \in Range(last.calls)
  /\ <<VmOperatorMoRefKey, ReferenceValue("vm0", 1)>> \in last.annotations0
  /\ last.annotations = last.annotations0
  /\ last.status = last.status0


\* the calls of the deploy of a library item
DeployCalls == {"DeployLibraryItem", "ObjectReference"}

C35_UpdateThenPowerState ==
  (last.op = "Update" /\ "Reconfigure" \in Range(last.calls) /\ last.f # "Reconfigure") =>
    LET reconfigures == Positions(last.calls, {"Reconfigure"})
        powers == Positions(last.calls, PowerCalls)
    IN /\ Cardinality(reconfigures) = 1 /\ Cardinality(powers) = 1
       /\ \A p \in powers :
            /\ p - 1 \in reconfigures
            /\ last.vm.power # "" => last.calls[p] = SetPowerStateCall(last.vm.power)
            /\ last.vm.power = "" => last.calls[p] = SetPowerStateCall(PoweredOn)
       /\ last.f = "SetPowerState" =>
            /\ last.err = Wrap(BackendFault)
            /\ "GetStatus" \notin Range(last.calls)
            /\ last.status = last.status0
\* the spec names no power state; the reconfigure succeeded and the power-on
\* failed
C35_Witness ==
  /\ last.op = "Update" /\ last.vm.power = "" /\ last.f = "SetPowerState"
  /\ last.calls[Len(last.calls)] = SetPowerStateCall(PoweredOn)
  /\ last.calls[Len(last.calls) - 1] = "Reconfigure"
  /\ last.err # NoErr


(***************************************************************************)
(* Properties of the functions of the Session, continued (SpecFn)          *)
(***************************************************************************)
\* C22 - getCustomizationSpecs returns no error for interfaces without a
\* single resolved address: its customization spec has exactly one adapter
\* mapping for each NSX-T interface whose status has exactly one IP address
\* and none for an NSX-T interface whose status has zero or several; for a
\* spec without NSX-T interface it returns no customization spec, and Create
\* then calls no Customize
C22_PartialCustomization ==
  fn.name = "getCustomizationSpecs" =>
    LET nsx == {i \in 1..Len(fn.nifs) : fn.nifs[i] = NsxtNetworkType}
    IN /\ fn.f # "waitForVnetIFStatus" => fn.err = NoErr
       /\ fn.err = NoErr =>
            /\ fn.out.has <=> nsx # {}
            /\ \A i \in 1..Len(fn.nifs) :
                 Cardinality(Positions(fn.out.mappings, {i})) =
                   IF i \in nsx /\ fn.ips[i] = 1 THEN 1 ELSE 0
            /\ Range(fn.out.mappings) \subseteq nsx
       /\ nsx = {} => fn.out = NoCustomization /\ "Customize" \notin Range(fn.calls)
\* three NSX-T interfaces with one, no and two addresses: one mapping
C22_Witness ==
  /\ fn.name = "getCustomizationSpecs" /\ fn.err = NoErr
  /\ fn.nifs = <<NsxtNetworkType, NsxtNetworkType, NsxtNetworkType>>
  /\ fn.ips = <<1, 0, 2>>
  /\ fn.out.mappings = <<1>>
  /\ "Customize" \in Range(fn.calls)


(***************************************************************************)
(* Properties of the customization wait (SpecWait)                         *)
(***************************************************************************)
\* C23 - when the context of CreateVirtualMachine becomes done while the
\* call waits for the status of a network interface, that wait ends with a
\* timeout error, which Create returns: it does not go on until the status
\* appears and end with it
C23_WaitHonoursContext ==
  [][wait.pc = "waiting" /\ wait.cancelled /\ wait.whenCancelled = wait.i
     /\ (wait'.pc # "waiting" \/ wait'.i # wait.i)
       => wait'.pc = "returned" /\ wait'.err = Err("timeout")]_vars


\* C25 - the VirtualMachineCloneSpec getCloneSpec builds never asks for a
\* full memory clone (Memory is false), and asks for power-on exactly when
\* the power state of the spec is poweredOn: not for poweredOff, and not for
\* an unset power state
C25_CloneSpecPowerAndMemory ==
  fn.name = "getCloneSpec" /\ fn.err = NoErr =>
    /\ fn.out.memory = FALSE
    /\ fn.out.powerOn <=> fn.power = PoweredOn
\* no power state in the spec: no power-on
C25_Witness ==
  /\ fn.name = "getCloneSpec" /\ fn.err = NoErr
  /\ fn.power = ""
  /\ fn.out.powerOn = FALSE /\ fn.out.memory = FALSE


(***************************************************************************)
(* Properties of the fake provider (SpecFake)                              *)
(***************************************************************************)
\* C26 - as long as no override function is set, DoesVirtualMachineExist of
\* the fake provider answers true exactly when the last of the Create, Update
\* and Delete calls for the (namespace, name) of the VM was a Create or an
\* Update; and Reset leaves the provider with no VM and no override function
C26_FakeReflectsCalls ==
  /\ fake.call.method = "DoesVirtualMachineExist" /\ fake.plain =>
       (fake.call.ok <=>
          fake.recent[fake.call.key] \in {"CreateVirtualMachine", "UpdateVirtualMachine"})
  /\ fake.call.method = "Reset" =>
       fake.vmMap = {} /\ fake.funcs = {} /\ \A k \in FakeKeys : fake.recent[k] = "none"
\* a VM created, deleted and asked for, while the VM of the same name in
\* another namespace is still there
C26_Witness ==
  /\ fake.call.method = "DoesVirtualMachineExist" /\ fake.plain
  /\ fake.call.key = <<"ns1", "vm1">> /\ fake.call.ok = FALSE
  /\ fake.recent[<<"ns1", "vm1">>] = "DeleteVirtualMachine"
  /\ fake.recent[<<"ns2", "vm1">>] = "UpdateVirtualMachine"


(***************************************************************************)
(* Properties of the mutation webhook (SpecFn)                             *)
(***************************************************************************)
\* C27 - SetNextRestartTime returns true exactly when the incoming value of
\* spec.nextRestartTime equals "now" without regard to case, and then the
\* field holds the current UTC timestamp; for every other incoming value it
\* returns false
C27_RestartOnlyOnNow ==
  fn.name = "SetNextRestartTime" =>
    /\ fn.ok <=> EqualFold(<<"n", "o", "w">>, fn.newTime)
    /\ fn.ok => fn.value = Timestamp


\* C28 - AddDefaultNetworkInterface adds the default interface and returns
\* true whenever the VM has no no-default-NIC annotation and specifies no
\* interface (networking not being disabled); with the annotation, or with
\* networking disabled, it returns false and leaves the interfaces alone
C28_DefaultInterfaceAdded ==
  fn.name = "AddDefaultNetworkInterface" =>
    /\ ( /\ ~fn.annotated
         /\ \A n \in fn.network : ~n.disabled /\ n.interfaces = <<>> )
       => /\ fn.updated
          /\ \E n \in fn.out :
               /\ Len(n.interfaces) = 1
               /\ n.interfaces[1].name = defaultInterfaceName
               /\ n.interfaces[1].network # {}
    /\ ( fn.annotated \/ \E n \in fn.network : n.disabled )
       => ~fn.updated /\ fn.out = fn.network


\* C37 - for a VM that already lists network interfaces,
\* AddDefaultNetworkInterface completes for every interface, those with no
\* network reference included, under every network provider type: a missing
\* kind and apiVersion are filled with the provider's (NSX-T, VDS, VPC), a
\* missing name with the default name (Named), and a kind, apiVersion or
\* name that is set is never overwritten
C37_ExistingInterfacesDefaulted ==
  ( /\ fn.name = "AddDefaultNetworkInterface"
    /\ ~fn.annotated
    /\ fn.providerType \in {"NSXT", "VDS", "VPC", "NAMED"}
    /\ \E n \in fn.network : ~n.disabled /\ n.interfaces # <<>> ) =>
    /\ ~fn.panic
    /\ \A n \in fn.network : \A o \in fn.out :
         /\ Len(o.interfaces) = Len(n.interfaces)
         /\ \A i \in 1..Len(n.interfaces) :
              LET ref == networkRef(fn.providerType, fn.configured)
                  before == n.interfaces[i].network
                  after == o.interfaces[i].network
              IN  /\ after # {}
                  /\ \A a \in after :
                       /\ ( fn.providerType # "NAMED"
                            /\ \A b \in before : b.kind = "" /\ b.apiVersion = "" )
                          => a.kind = ref.kind /\ a.apiVersion = ref.apiVersion
                       /\ ( fn.providerType = "NAMED" /\ \A b \in before : b.name = "" )
                          => a.name = ref.name
                       /\ \A b \in before :
                            /\ b.kind # "" => a.kind = b.kind
                            /\ b.apiVersion # "" => a.apiVersion = b.apiVersion
                            /\ b.name # "" => a.name = b.name


(***************************************************************************)
(* Properties of the construction of a Session (SpecFn)                    *)
(***************************************************************************)
\* C29 - whenever NewSessionAndConfigure returns an error after the client
\* connection was established (initSession or ConfigureContent failed), the
\* client has been logged out before the error is returned
C29_NoLeakedClient ==
  fn.name = "NewSessionAndConfigure" /\ fn.err # NoErr /\ fn.client # "none" =>
    fn.client = "loggedOut"


(***************************************************************************)
(* Properties of the image lookup (SpecFn)                                 *)
(***************************************************************************)
\* C33 - GetVirtualMachineImage with a content library configured and no
\* backend failure: a deployable item of the requested name in the library
\* is returned as the image; when the library holds no such item the lookup
\* goes on to the inventory and returns the VM of that name as an image of
\* the inventory
C33_LibraryThenInventory ==
  fn.name = "GetVirtualMachineImage" /\ fn.contentlib # "" /\ fn.f = "none" =>
    /\ fn.items > 0 /\ IsSupportedDeployType(fn.type) =>
         fn.err = NoErr /\ fn.val = "Content Library"
    /\ fn.items = 0 /\ fn.inventory = 1 =>
         /\ fn.err = NoErr /\ fn.val = "Inventory"
         /\ "Finder.VirtualMachine" \in Range(fn.calls)


(***************************************************************************)
(* Properties of GetExtraConfig (SpecFn)                                   *)
(***************************************************************************)
\* C34 - GetExtraConfig returns one entry per key of the union of the two
\* maps: the value of the VM for every key the VM specifies, the global
\* value otherwise; with no global map the result is the entries of the VM
C34_VMOverridesGlobal ==
  fn.name = "GetExtraConfig" =>
    LET global == UNION fn.globalMeta
        keys == KeysOf(fn.vmSpecMeta) \cup KeysOf(global)
    IN /\ Len(fn.out) = Cardinality(keys)
       /\ \A k \in keys : Cardinality({i \in 1..Len(fn.out) : fn.out[i][1] = k}) = 1
       /\ \A e \in fn.vmSpecMeta : e \in Range(fn.out)
       /\ \A e \in global : e[1] \notin KeysOf(fn.vmSpecMeta) => e \in Range(fn.out)
       /\ fn.globalMeta = {} => Range(fn.out) = fn.vmSpecMeta
\* a key of both maps with different values, a key of the VM only and a key
\* of the global map only
C34_Witness ==
  /\ fn.name = "GetExtraConfig" /\ fn.globalMeta # {}
  /\ \E e \in fn.vmSpecMeta, g \in UNION fn.globalMeta :
       e[1] = g[1] /\ e[2] # g[2] /\ e \in Range(fn.out)
  /\ KeysOf(fn.vmSpecMeta) \ KeysOf(UNION fn.globalMeta) # {}
  /\ KeysOf(UNION fn.globalMeta) \ KeysOf(fn.vmSpecMeta) # {}
  /\ Len(fn.out) = 3


C38_SyncedOnlyOnCryptoUpdate ==
  crypto.call.op = "OnResult" =>
    /\ ( \/ crypto.call.marked = "True"
         \/ crypto.synced.status = "True" /\ crypto.call.synced0.status # "True" )
       => /\ crypto.call.resultErr = <<>>
          /\ crypto.call.operation \in {"encrypting", "recrypting"}
    /\ crypto.call.resultErr # <<>> =>
         /\ crypto.call.marked # "True"
         /\ crypto.synced.status = "True" => crypto.call.synced0 = crypto.synced
         /\ ( \/ crypto.call.marked = "False"
              \/ crypto.synced.status = "False" /\ crypto.synced # crypto.call.synced0 )
            => \E i \in 1..Len(crypto.call.resultErr) :
                 FaultMessages(crypto.call.resultErr[i]) # <<>>
    /\ crypto.call.err = NoErr
    /\ ~crypto.call.panic
\* a recrypt succeeds on a VM whose condition was false: it becomes true
C38_Witness ==
  /\ crypto.call.op = "OnResult" /\ crypto.call.resultErr = <<>>
  /\ crypto.call.operation = "recrypting" /\ crypto.call.synced0.status = "False"
  /\ crypto.synced.status = "True"
\* a failed reconfigure with a recognised fault on a VM whose condition was
\* true: it becomes false
C38_WitnessNotSynced ==
  /\ crypto.call.op = "OnResult" /\ crypto.call.resultErr # <<>>
  /\ crypto.call.synced0.status = "True" /\ crypto.synced.status = "False"
  /\ crypto.call.msgs # <<>>

\* C39 - after any sequence of OnResult calls the crypto status reflects the
\* most recent observation only: Status.Crypto is nil exactly when the VM
\* has no key provider and no key id, and otherwise Encrypted lists Disks
\* only if the most recent call had an encrypted storage class, and Config
\* only if it had an encrypted storage class or a vTPM
C39_StatusReflectsLastCall ==
  crypto.call.op = "OnResult" =>
    /\ crypto.status = {} <=> (crypto.call.key.provider = "" /\ crypto.call.key.id = "")
    /\ \A c \in crypto.status :
         /\ VirtualMachineEncryptionTypeDisks \in Range(c.encrypted)
              => crypto.call.isEncStorClass
         /\ VirtualMachineEncryptionTypeConfig \in Range(c.encrypted)
              => crypto.call.isEncStorClass \/ crypto.call.vtpm

=============================================================================
